---- MODULE Spec2Model ----
(***************************************************************************)
(* platform_contracts: the versioned-schema validation and compatibility   *)
(* rule (versioning.py), the Money sign predicates (common/money.py) and   *)
(* the journal balance check (accounting/journal_entry.py).                *)
(*                                                                         *)
(* A client holds one live record at a time.  Holding none, it constructs   *)
(* a record (validation runs, and either an instance or a ValidationError  *)
(* comes out); holding one, it calls the record's methods, assigns to its  *)
(* fields (the models declare no frozen configuration, so assignment is    *)
(* plain attribute assignment without validation) or drops it.  After each *)
(* operation the client takes note of the outcome and goes on.             *)
(*                                                                         *)
(* A str is a sequence of one-character tokens; the token "sup2" stands    *)
(* for U+00B2 SUPERSCRIPT TWO.  A Decimal is its sign, its coefficient     *)
(* digits (most significant first) and its exponent.                       *)
(***************************************************************************)
EXTENDS Integers, Sequences, FiniteSets, TLC

VARIABLES
    rec,    \* the live instance, or NoRecord
    call,   \* the last operation and its arguments
    ret,    \* what the last operation returned or raised
    seen,   \* per method: the results it returned since rec last changed
    clock,  \* the reading of the UTC clock
    other   \* an instance constructed earlier that the client still holds, or
            \* NoRecord

vars == <<rec, call, ret, seen, clock, other>>

----------------------------------------------------------------------------
(* Bounds of the model. *)

\* longest schema_version given to the VersionedSchema constructor
MaxLen == 4
\* longest other_version given to is_compatible
MaxOtherLen == 3
\* longest currency given to the Money constructor
MaxCurrencyLen == 4
\* most lines of a journal entry
MaxLines == 3
\* most calls of one method noted between two changes of the record
MaxCalls == 2
\* the most child records given in a list
MaxChildren == 2
\* how far beyond the two ends of its range a number argument goes
MaxOutside == 2

----------------------------------------------------------------------------
(* str *)

\* characters for which str.isdecimal() holds
DecimalDigits == {"0", "1"}
\* characters for which str.isdigit() holds: the decimal digits and the
\* digits "that need special handling", such as the superscript digits
DigitChars == DecimalDigits \cup {"sup2"}
Chars == DigitChars \cup {".", "x", "-"}

StringsUpTo(n) == UNION {[1..k -> Chars] : k \in 0..n}

\* the characters of the other_version arguments
OtherChars == {"0", "1", ".", "x"}
OtherVersionInputs == UNION {[1..k -> OtherChars] : k \in 0..MaxOtherLen}

\* the argument value of a keyword argument that is not passed
Omitted == <<"<omitted>">>

HasDot(s) == \E i \in 1..Len(s) : s[i] = "."
FirstDot(s) == CHOOSE i \in 1..Len(s) : s[i] = "." /\ \A j \in 1..(i - 1) : s[j] # "."

\* str.split("."): the segments between the dots, in order
RECURSIVE split(_)
split(s) ==
    IF ~HasDot(s) THEN <<s>>
    ELSE <<SubSeq(s, 1, FirstDot(s) - 1)>> \o split(SubSeq(s, FirstDot(s) + 1, Len(s)))

\* str.isdigit(): at least one character, and all of them digits
isdigit(p) == Len(p) > 0 /\ \A i \in 1..Len(p) : p[i] \in DigitChars

----------------------------------------------------------------------------
(* Outcomes of an operation *)

NoRecord == [type |-> "None"]
NoError == [type |-> "", loc |-> "", msg |-> <<>>]

Returned(v) == [kind |-> "value", value |-> v, errors |-> <<>>]
Instance == [kind |-> "instance", value |-> FALSE, errors |-> <<>>]
ValidationError(errs) == [kind |-> "ValidationError", value |-> FALSE, errors |-> errs]
NoneYet == [kind |-> "none", value |-> FALSE, errors |-> <<>>]

\* no operation is under way
Idle == [op |-> "none", arg |-> <<>>]

Unseen ==
    [is_positive |-> <<>>, is_negative |-> <<>>, is_zero |-> <<>>, is_balanced |-> <<>>]

----------------------------------------------------------------------------
(* versioning.py *)

DefaultVersion == <<"1", ".", "0">>

ValueError(v) ==
    [type |-> "value_error", loc |-> "schema_version",
     msg |-> <<"Invalid schema version format: ", v, ". Expected 'major.minor'.">>]

Missing(field) == [type |-> "missing", loc |-> field, msg |-> <<>>]

\* a validator that normalises the two numbers instead of returning v
StripZeros(p) ==
    IF Len(p) > 1 /\ p[1] = "0" THEN SubSeq(p, 2, Len(p)) ELSE p

validate_version_normalising(v) ==
    LET parts == split(v) IN
    IF Len(parts) # 2 \/ ~(\A i \in 1..Len(parts) : isdigit(parts[i]))
    THEN [ok |-> FALSE, value |-> v, error |-> ValueError(v)]
    ELSE [ok |-> TRUE, value |-> StripZeros(parts[1]) \o <<".">> \o StripZeros(parts[2]),
          error |-> NoError]

\* VersionedSchema.validate_version: the value stored, or the error raised
validate_version(v) ==
    LET parts == split(v) IN
    IF Len(parts) # 2 \/ ~(\A i \in 1..Len(parts) : isdigit(parts[i]))
    THEN [ok |-> FALSE, value |-> v, error |-> ValueError(v)]
    ELSE [ok |-> TRUE, value |-> v, error |-> NoError]

\* the schema_version field: its default is used as it is, a passed value
\* goes through the validator
schema_version_field(v) ==
    IF v = Omitted THEN [ok |-> TRUE, value |-> DefaultVersion, error |-> NoError]
    ELSE validate_version(v)

\* a comparison of the major numbers instead of the major texts
is_compatible_numeric(self, other_version) ==
    Returned(StripZeros(split(self.schema_version)[1]) = StripZeros(split(other_version)[1]))

\* an is_compatible that validates its argument first
is_compatible_validating(self, other_version) ==
    IF validate_version(other_version).ok
    THEN Returned(split(self.schema_version)[1] = split(other_version)[1])
    ELSE [kind |-> "ValueError", value |-> FALSE,
          errors |-> <<validate_version(other_version).error>>]

\* an is_compatible that takes a major that begins with the other major
\* for the same major
is_compatible_prefix(self, other_version) ==
    LET my_major == split(self.schema_version)[1]
        other_major == split(other_version)[1]
    IN  Returned(/\ Len(other_major) <= Len(my_major)
                 /\ SubSeq(my_major, 1, Len(other_major)) = other_major)

\* VersionedSchema.is_compatible
is_compatible(self, other_version) ==
    LET my_major == split(self.schema_version)[1]
        other_major == split(other_version)[1]
    IN  Returned(my_major = other_major)

\* VersionedSchema(schema_version=v)
VersionedSchema(v) ==
    LET f == schema_version_field(v) IN
    /\ call' = [op |-> "VersionedSchema", arg |-> v]
    /\ seen' = Unseen
    /\ IF f.ok
       THEN /\ rec' = [type |-> "VersionedSchema", schema_version |-> f.value]
            /\ ret' = Instance
       ELSE /\ rec' = NoRecord
            /\ ret' = ValidationError(<<f.error>>)

NewVersionedSchema ==
    /\ call = Idle
    /\ rec = NoRecord
    /\ \E v \in StringsUpTo(MaxLen) \cup {Omitted} : VersionedSchema(v)
    /\ UNCHANGED <<clock, other>>

\* the other_version arguments given to a record of a derived type
DerivedOtherVersionInputs == {<<"1", ".", "1">>, <<"0", ".", "1">>}

\* rec.is_compatible(other_version)
CallIsCompatible ==
    /\ call = Idle
    /\ "schema_version" \in DOMAIN rec
    /\ \E other_version \in (IF rec.type = "VersionedSchema" THEN OtherVersionInputs
                              ELSE DerivedOtherVersionInputs) :
          /\ call' = [op |-> "is_compatible", arg |-> other_version]
          /\ ret' = is_compatible(rec, other_version)
    /\ UNCHANGED <<rec, seen>>
    /\ UNCHANGED <<clock, other>>

----------------------------------------------------------------------------
(* decimal.Decimal under the default context *)

\* the precision of the default context: results are rounded to this many
\* significant digits (rounding mode ROUND_HALF_EVEN)
Prec == 28

Dec(sign, coef, exp) == [sign |-> sign, coef |-> coef, exp |-> exp]

\* Decimal("0") and the int 0 that sum() starts from
Zero == Dec(0, <<0>>, 0)

Zeros(n) == [i \in 1..n |-> 0]
Min(a, b) == IF a < b THEN a ELSE b
Max(a, b) == IF a > b THEN a ELSE b

IsZeroCoef(ds) == \A i \in 1..Len(ds) : ds[i] = 0

\* the digits without their leading zeros (one digit is always left)
StripLeading(ds) ==
    IF IsZeroCoef(ds) THEN <<0>>
    ELSE LET i == CHOOSE i \in 1..Len(ds) : ds[i] # 0 /\ \A j \in 1..(i - 1) : ds[j] = 0
         IN  SubSeq(ds, i, Len(ds))

PadTo(ds, n) == Zeros(n - Len(ds)) \o ds

\* -1, 0, 1 as the natural number a is below, equal to, above b
CmpDigits(a, b) ==
    LET n == Max(Len(a), Len(b))
        A == PadTo(a, n)
        B == PadTo(b, n)
    IN  IF A = B THEN 0
        ELSE LET i == CHOOSE i \in 1..n : A[i] # B[i] /\ \A j \in 1..(i - 1) : A[j] = B[j]
             IN  IF A[i] < B[i] THEN -1 ELSE 1

\* a + b on natural numbers given by their digits
AddDigits(a, b) ==
    LET n == Max(Len(a), Len(b)) + 1
        A == PadTo(a, n)
        B == PadTo(b, n)
        carry[i \in 1..(n + 1)] ==
            IF i = n + 1 THEN 0 ELSE (A[i] + B[i] + carry[i + 1]) \div 10
    IN  StripLeading([i \in 1..n |-> (A[i] + B[i] + carry[i + 1]) % 10])

\* a - b on natural numbers given by their digits, for a >= b
SubDigits(a, b) ==
    LET n == Max(Len(a), Len(b))
        A == PadTo(a, n)
        B == PadTo(b, n)
        borrow[i \in 1..(n + 1)] ==
            IF i = n + 1 THEN 0
            ELSE IF A[i] - B[i] - borrow[i + 1] < 0 THEN 1 ELSE 0
    IN  StripLeading([i \in 1..n |-> (A[i] - B[i] - borrow[i + 1] + 10) % 10])

\* the coefficient of x at the exponent e <= x.exp
Rescaled(x, e) == IF IsZeroCoef(x.coef) THEN <<0>> ELSE x.coef \o Zeros(x.exp - e)

\* x + y with no rounding
ExactAdd(x, y) ==
    LET e == Min(x.exp, y.exp)
        X == Rescaled(x, e)
        Y == Rescaled(y, e)
        c == CmpDigits(X, Y)
    IN  IF x.sign = y.sign THEN Dec(x.sign, AddDigits(X, Y), e)
        ELSE IF c = 0 THEN Dec(0, <<0>>, e)
        ELSE IF c = 1 THEN Dec(x.sign, SubDigits(X, Y), e)
        ELSE Dec(y.sign, SubDigits(Y, X), e)

\* the context's rounding of a result: at most Prec digits are kept, the
\* rest is rounded half-even
Fix(x) ==
    LET n == Len(x.coef) IN
    IF n <= Prec THEN x
    ELSE LET kept == SubSeq(x.coef, 1, Prec)
             rest == SubSeq(x.coef, Prec + 1, n)
             tail == SubSeq(rest, 2, Len(rest))
             up == \/ rest[1] > 5
                   \/ rest[1] = 5 /\ ~IsZeroCoef(tail)
                   \/ rest[1] = 5 /\ IsZeroCoef(tail) /\ kept[Prec] % 2 = 1
             coef == IF up THEN AddDigits(kept, <<1>>) ELSE kept
         IN  IF Len(coef) > Prec
             THEN Dec(x.sign, SubSeq(coef, 1, Prec), x.exp + (n - Prec) + 1)
             ELSE Dec(x.sign, coef, x.exp + (n - Prec))

\* Decimal.__add__: the exact sum, rounded by the context
Add(x, y) == Fix(ExactAdd(x, y))

\* Decimal._cmp: -1, 0, 1 as x is below, equal to, above y in value
Cmp(x, y) ==
    LET xz == IsZeroCoef(x.coef)
        yz == IsZeroCoef(y.coef)
        e == Min(x.exp, y.exp)
        c == CmpDigits(Rescaled(x, e), Rescaled(y, e))
    IN  IF xz /\ yz THEN 0
        ELSE IF xz THEN (IF y.sign = 1 THEN 1 ELSE -1)
        ELSE IF yz THEN (IF x.sign = 1 THEN -1 ELSE 1)
        ELSE IF x.sign # y.sign THEN (IF x.sign = 1 THEN -1 ELSE 1)
        ELSE IF x.sign = 1 THEN 0 - c ELSE c

\* the builtin sum(): start + xs[1] + ... + xs[n], added from the left
RECURSIVE sum(_, _)
sum(xs, start) ==
    IF xs = <<>> THEN start ELSE sum(Tail(xs), Add(start, Head(xs)))

----------------------------------------------------------------------------
(* common/money.py *)

\* Field(default="USD", max_length=3)
CurrencyMaxLength == 3
DefaultCurrency == <<"U", "S", "D">>

CurrencyChars == {"U", "S"}
CurrencyInputs ==
    UNION {[1..k -> CurrencyChars] : k \in 0..MaxCurrencyLen} \cup {Omitted}

\* 0, 0.00, -0, 0.01, -0.01, 10.00, -10.00, 1E+28 (the field is a
\* Decimal, for which validation lets no NaN and no infinity through)
AmountInputs ==
    { Dec(0, <<0>>, 0), Dec(0, <<0>>, -2), Dec(1, <<0>>, 0),
      Dec(0, <<1>>, -2), Dec(1, <<1>>, -2),
      Dec(0, <<1, 0, 0, 0>>, -2), Dec(1, <<1, 0, 0, 0>>, -2),
      Dec(0, <<1>>, 28) }

NoAmount == Dec(0, <<>>, 0)

StringTooLong(field) == [type |-> "string_too_long", loc |-> field, msg |-> <<>>]

\* the errors of the fields of Money, in the order of the fields
MoneyErrors(amount, currency) ==
    (IF amount = NoAmount THEN <<Missing("amount")>> ELSE <<>>)
    \o (IF currency # Omitted /\ Len(currency) > CurrencyMaxLength
        THEN <<StringTooLong("currency")>> ELSE <<>>)

\* Money.is_positive
is_positive(self) == Returned(Cmp(self.amount, Zero) = 1)

\* Money.is_negative
is_negative(self) == Returned(Cmp(self.amount, Zero) = -1)

\* a comparison of the representations instead of the values
is_zero_by_representation(self) == Returned(self.amount = Dec(0, <<0>>, 0))

\* Money.is_zero
is_zero(self) == Returned(Cmp(self.amount, Dec(0, <<0>>, 0)) = 0)

\* Money(amount=amount, currency=currency)
Money(amount, currency) ==
    LET errs == MoneyErrors(amount, currency) IN
    /\ call' = [op |-> "Money", arg |-> <<amount, currency>>]
    /\ seen' = Unseen
    /\ IF errs = <<>>
       THEN /\ rec' = [type |-> "Money", amount |-> amount,
                       currency |-> IF currency = Omitted THEN DefaultCurrency
                                    ELSE currency]
            /\ ret' = Instance
       ELSE /\ rec' = NoRecord
            /\ ret' = ValidationError(errs)

NewMoney ==
    /\ call = Idle
    /\ rec = NoRecord
    /\ \E amount \in AmountInputs \cup {NoAmount}, currency \in CurrencyInputs :
          Money(amount, currency)
    /\ UNCHANGED <<clock, other>>

CallIsPositive ==
    /\ call = Idle
    /\ rec.type = "Money"
    /\ Len(seen.is_positive) < MaxCalls
    /\ call' = [op |-> "is_positive", arg |-> <<>>]
    /\ ret' = is_positive(rec)
    /\ seen' = [seen EXCEPT !.is_positive = Append(@, is_positive(rec).value)]
    /\ UNCHANGED rec
    /\ UNCHANGED <<clock, other>>

CallIsNegative ==
    /\ call = Idle
    /\ rec.type = "Money"
    /\ Len(seen.is_negative) < MaxCalls
    /\ call' = [op |-> "is_negative", arg |-> <<>>]
    /\ ret' = is_negative(rec)
    /\ seen' = [seen EXCEPT !.is_negative = Append(@, is_negative(rec).value)]
    /\ UNCHANGED rec
    /\ UNCHANGED <<clock, other>>

\* an is_zero that stores the canonical zero when it finds the amount zero
CallIsZeroNormalising ==
    /\ call = Idle
    /\ rec.type = "Money"
    /\ Len(seen.is_zero) < MaxCalls
    /\ call' = [op |-> "is_zero", arg |-> <<>>]
    /\ ret' = is_zero(rec)
    /\ seen' = [seen EXCEPT !.is_zero = Append(@, is_zero(rec).value)]
    /\ rec' = IF is_zero(rec).value THEN [rec EXCEPT !.amount = Dec(0, <<0>>, 0)] ELSE rec
    /\ UNCHANGED <<clock, other>>

CallIsZero ==
    /\ call = Idle
    /\ rec.type = "Money"
    /\ Len(seen.is_zero) < MaxCalls
    /\ call' = [op |-> "is_zero", arg |-> <<>>]
    /\ ret' = is_zero(rec)
    /\ seen' = [seen EXCEPT !.is_zero = Append(@, is_zero(rec).value)]
    /\ UNCHANGED rec
    /\ UNCHANGED <<clock, other>>

----------------------------------------------------------------------------
(* accounting/journal_entry.py *)

\* JournalEntryLine(account_id=..., debit=debit, credit=credit); debit and
\* credit default to Decimal("0")
JournalEntryLine(debit, credit) ==
    [account_id |-> "acc", debit |-> debit, credit |-> credit]

Debit(amount) == JournalEntryLine(amount, Dec(0, <<0>>, 0))
Credit(amount) == JournalEntryLine(Dec(0, <<0>>, 0), amount)

\* debits and credits of 100.00, 5, -5 and 1E+28, and lines with both a
\* debit and a credit, of 5 and of 1E+28
LineInputs ==
    { Debit(Dec(0, <<1, 0, 0, 0, 0>>, -2)), Credit(Dec(0, <<1, 0, 0, 0, 0>>, -2)),
      Debit(Dec(0, <<5>>, 0)), Debit(Dec(1, <<5>>, 0)),
      Debit(Dec(0, <<1>>, 28)), Credit(Dec(0, <<1>>, 28)),
      JournalEntryLine(Dec(0, <<5>>, 0), Dec(0, <<5>>, 0)),
      JournalEntryLine(Dec(0, <<1>>, 28), Dec(0, <<1>>, 28)) }

LinesInputs == UNION {[1..k -> LineInputs] : k \in 0..MaxLines}

EntryVersionInputs == {Omitted, <<"1", "x">>}
EntryDateInputs == {Omitted, <<"2024-01-15">>}

Debits(lines) == [i \in 1..Len(lines) |-> lines[i].debit]
Credits(lines) == [i \in 1..Len(lines) |-> lines[i].credit]

\* an is_balanced that adds up the magnitudes of the amounts
is_balanced_magnitudes(self) ==
    LET Magnitude(x) == Dec(0, x.coef, x.exp)
        total_debits == sum([i \in 1..Len(self.lines) |-> Magnitude(self.lines[i].debit)],
                            Zero)
        total_credits == sum([i \in 1..Len(self.lines) |-> Magnitude(self.lines[i].credit)],
                             Zero)
    IN  Returned(Cmp(total_debits, total_credits) = 0)

\* JournalEntry.is_balanced
is_balanced(self) ==
    LET total_debits == sum(Debits(self.lines), Zero)
        total_credits == sum(Credits(self.lines), Zero)
    IN  Returned(Cmp(total_debits, total_credits) = 0)

\* the errors of the fields of JournalEntry, in the order of the fields
JournalEntryErrors(schema_version, entry_date) ==
    (IF schema_version_field(schema_version).ok THEN <<>>
     ELSE <<schema_version_field(schema_version).error>>)
    \o (IF entry_date = Omitted THEN <<Missing("entry_date")>> ELSE <<>>)

\* a constructor that also insists on a balanced entry
JournalEntryBalancedOnly(schema_version, entry_date, lines) ==
    LET errs == JournalEntryErrors(schema_version, entry_date)
        self == [type |-> "JournalEntry",
                 schema_version |-> schema_version_field(schema_version).value,
                 entry_date |-> entry_date, lines |-> lines]
    IN
    /\ call' = [op |-> "JournalEntry", arg |-> <<schema_version, entry_date, lines>>]
    /\ seen' = Unseen
    /\ IF errs = <<>> /\ is_balanced(self).value
       THEN rec' = self /\ ret' = Instance
       ELSE rec' = NoRecord /\ ret' = ValidationError(errs)

\* JournalEntry(schema_version=..., entry_date=..., lines=...)
JournalEntry(schema_version, entry_date, lines) ==
    LET errs == JournalEntryErrors(schema_version, entry_date) IN
    /\ call' = [op |-> "JournalEntry", arg |-> <<schema_version, entry_date, lines>>]
    /\ seen' = Unseen
    /\ IF errs = <<>>
       THEN /\ rec' = [type |-> "JournalEntry",
                       schema_version |-> schema_version_field(schema_version).value,
                       entry_date |-> entry_date, lines |-> lines]
            /\ ret' = Instance
       ELSE /\ rec' = NoRecord
            /\ ret' = ValidationError(errs)

NewJournalEntry ==
    /\ call = Idle
    /\ rec = NoRecord
    /\ \E schema_version \in EntryVersionInputs, entry_date \in EntryDateInputs,
          lines \in LinesInputs :
          JournalEntry(schema_version, entry_date, lines)
    /\ UNCHANGED <<clock, other>>

\* an is_balanced that takes the lines off the entry as it adds them up
CallIsBalancedConsuming ==
    /\ call = Idle
    /\ rec.type = "JournalEntry"
    /\ Len(seen.is_balanced) < MaxCalls
    /\ call' = [op |-> "is_balanced", arg |-> <<>>]
    /\ ret' = is_balanced(rec)
    /\ seen' = [seen EXCEPT !.is_balanced = Append(@, ret'.value)]
    /\ rec' = [rec EXCEPT !.lines = <<>>]
    /\ UNCHANGED <<clock, other>>

\* rec.is_balanced()
CallIsBalanced ==
    /\ call = Idle
    /\ rec.type = "JournalEntry"
    /\ Len(seen.is_balanced) < MaxCalls
    /\ call' = [op |-> "is_balanced", arg |-> <<>>]
    /\ ret' = is_balanced(rec)
    /\ seen' = [seen EXCEPT !.is_balanced = Append(@, ret'.value)]
    /\ UNCHANGED rec
    /\ UNCHANGED <<clock, other>>

----------------------------------------------------------------------------
(* The declarations of the record types, module by module: for each class  *)
(* the fields that have no default, in the order of their declaration, and *)
(* the default of each of the others.  A value is written <<type, text>>.  *)
(* schema_version is left to VersionedSchema.                              *)

\* accounting/account.py
accounting_account ==
    [
     Account |->
        [required |-> <<"id", "name">>,
         defaults |-> [
            account_type |-> <<"str", "">>, sub_type |-> <<"str", "">>,
            account_number |-> <<"str", "">>,
            schedule_c_line |-> <<"str", "">>,
            is_active |-> <<"bool", "True">>,
            parent_id |-> <<"NoneType", "None">>]]]

\* accounting/classification.py
accounting_classification ==
    [
     ClientContext |->
        [required |-> <<>>,
         defaults |-> [
            business_type |-> <<"str", "">>, industry |-> <<"str", "">>,
            tax_filing_type |-> <<"str", "">>, state |-> <<"str", "">>]],
     AvailableAccount |->
        [required |-> <<"id", "name">>,
         defaults |-> [
            type |-> <<"str", "">>, sub_type |-> <<"str", "">>,
            schedule_c_line |-> <<"str", "">>]],
     ExistingRule |->
        [required |-> <<"pattern", "category_id">>,
         defaults |-> [
            category_name |-> <<"str", "">>]],
     HistoricalPattern |->
        [required |-> <<"description", "account_id">>,
         defaults |-> [
            account_name |-> <<"str", "">>, count |-> <<"int", "0">>]],
     TransactionForClassification |->
        [required |-> <<"transaction_id", "description", "amount", "transaction_date">>,
         defaults |-> [
            transaction_type |-> <<"str", "">>,
            bank_account_type |-> <<"str", "">>,
            vendor_name |-> <<"str", "">>, memo |-> <<"str", "">>,
            plaid_category |-> <<"list", "[]">>,
            plaid_merchant_name |-> <<"str", "">>]],
     TransactionClassificationRequest |->
        [required |-> <<"tenant_id", "client_id", "transactions">>,
         defaults |-> [
            available_accounts |-> <<"list", "[]">>,
            existing_rules |-> <<"list", "[]">>,
            historical_patterns |-> <<"list", "[]">>,
            client_context |-> <<"ClientContext", "ClientContext()">>]],
     RiskFlag |->
        [required |-> <<"code">>,
         defaults |-> [
            severity |-> <<"str", "medium">>, message |-> <<"str", "">>]],
     AlternativeSuggestion |->
        [required |-> <<"account_id">>,
         defaults |-> [
            name |-> <<"str", "">>, confidence |-> <<"float", "0.0">>]],
     TransactionClassificationResult |->
        [required |-> <<"transaction_id", "confidence">>,
         defaults |-> [
            suggested_account_id |-> <<"NoneType", "None">>,
            suggested_account_name |-> <<"str", "">>,
            suggested_vendor_id |-> <<"NoneType", "None">>,
            suggested_vendor_name |-> <<"str", "">>,
            confidence_band |-> <<"str", "">>, source |-> <<"str", "">>,
            reasoning |-> <<"str", "">>,
            needs_review |-> <<"bool", "False">>,
            needs_clarification |-> <<"bool", "False">>,
            clarification_question |-> <<"str", "">>,
            risk_flags |-> <<"list", "[]">>,
            alternative_suggestions |-> <<"list", "[]">>]],
     SuggestedRule |->
        [required |-> <<"pattern", "suggested_account_id">>,
         defaults |-> [
            suggested_account_name |-> <<"str", "">>,
            confidence |-> <<"float", "0.0">>]],
     ClassificationResponseMeta |->
        [required |-> <<>>,
         defaults |-> [
            request_id |-> <<"str", "">>, duration_ms |-> <<"int", "0">>,
            model |-> <<"str", "">>,
            transactions_processed |-> <<"int", "0">>,
            rule_matches |-> <<"int", "0">>,
            historical_matches |-> <<"int", "0">>,
            ai_classifications |-> <<"int", "0">>]],
     BatchClassificationResponse |->
        [required |-> <<"classifications">>,
         defaults |-> [
            suggested_rules |-> <<"list", "[]">>,
            meta |-> <<"ClassificationResponseMeta", "ClassificationResponseMeta()">>]]]

\* accounting/suspense.py
accounting_suspense ==
    [
     SuspenseItem |->
        [required |-> <<"suspense_id", "transaction_id", "client_id", "tenant_id">>,
         defaults |-> [
            reason |-> <<"str", "">>, suspense_account_id |-> <<"str", "">>,
            original_amount |-> <<"str", "">>, description |-> <<"str", "">>,
            parked_at |-> <<"NoneType", "None">>,
            resolved |-> <<"bool", "False">>,
            resolved_at |-> <<"NoneType", "None">>,
            resolution_account_id |-> <<"str", "">>,
            resolved_by |-> <<"str", "">>,
            clarification_attempts |-> <<"int", "0">>]]]

\* accounting/transaction.py
accounting_transaction ==
    [
     BankTransaction |->
        [required |-> <<"transaction_id", "description", "amount", "transaction_date">>,
         defaults |-> [
            transaction_type |-> <<"str", "">>,
            bank_account_type |-> <<"str", "">>,
            vendor_name |-> <<"str", "">>, memo |-> <<"str", "">>,
            check_number |-> <<"str", "">>,
            plaid_category |-> <<"list", "[]">>,
            plaid_merchant_name |-> <<"str", "">>,
            plaid_transaction_id |-> <<"str", "">>,
            metadata |-> <<"dict", "{}">>]]]

\* accounting/vendor.py
accounting_vendor ==
    [
     Vendor |->
        [required |-> <<"id", "name">>,
         defaults |-> [
            display_name |-> <<"str", "">>,
            is_1099_eligible |-> <<"bool", "False">>,
            is_active |-> <<"bool", "True">>]]]

\* common/identifiers.py
common_identifiers ==
    [
     TenantRef |->
        [required |-> <<"tenant_id">>,
         defaults |-> [
            source_system |-> <<"str", "">>]],
     ExternalRef |->
        [required |-> <<"system", "external_id">>,
         defaults |-> [
            external_type |-> <<"str", "">>, metadata |-> <<"dict", "{}">>]]]

\* common/timestamps.py
common_timestamps ==
    [
     TimestampMixin |->
        [required |-> <<>>,
         defaults |-> [
            created_at |-> <<"datetime", "utc_now()">>,
            updated_at |-> <<"datetime", "utc_now()">>]]]

\* events/event.py
events_event ==
    [
     PlatformEvent |->
        [required |-> <<"event_type">>,
         defaults |-> [
            event_id |-> <<"str", "">>, source_system |-> <<"str", "">>,
            tenant_id |-> <<"str", "">>,
            timestamp |-> <<"datetime", "utc_now()">>,
            payload |-> <<"dict", "{}">>, correlation_id |-> <<"str", "">>]]]

\* messaging/conversation.py
messaging_conversation ==
    [
     ConversationStep |->
        [required |-> <<"step_number">>,
         defaults |-> [
            direction |-> <<"str", "">>, body |-> <<"str", "">>,
            buttons |-> <<"list", "[]">>,
            timestamp |-> <<"NoneType", "None">>, response |-> <<"str", "">>]],
     StartConversationRequest |->
        [required |-> <<"tenant_id", "client_id", "contact_phone">>,
         defaults |-> [
            contact_name |-> <<"str", "">>,
            channel |-> <<"str", "whatsapp">>, flow_type |-> <<"str", "">>,
            context_type |-> <<"str", "">>, context_id |-> <<"str", "">>,
            context_data |-> <<"dict", "{}">>,
            timeout_minutes |-> <<"int", "1440">>]],
     ConversationSession |->
        [required |-> <<"conversation_id", "contact_phone">>,
         defaults |-> [
            channel |-> <<"str", "whatsapp">>,
            status |-> <<"str", "active">>,
            current_state |-> <<"str", "initial">>,
            flow_type |-> <<"str", "">>, context_type |-> <<"str", "">>,
            context_id |-> <<"str", "">>, steps |-> <<"list", "[]">>,
            last_activity_at |-> <<"NoneType", "None">>]],
     ConversationReplyWebhook |->
        [required |-> <<"conversation_id">>,
         defaults |-> [
            tenant_id |-> <<"str", "">>, client_id |-> <<"str", "">>,
            contact_phone |-> <<"str", "">>, response_text |-> <<"str", "">>,
            button_id |-> <<"str", "">>, context_type |-> <<"str", "">>,
            context_id |-> <<"str", "">>,
            timestamp |-> <<"NoneType", "None">>]]]

\* messaging/message.py
messaging_message ==
    [
     SendMessageRequest |->
        [required |-> <<"tenant_id", "client_id", "contact_phone">>,
         defaults |-> [
            contact_name |-> <<"str", "">>,
            channel |-> <<"str", "whatsapp">>,
            template_name |-> <<"str", "">>,
            template_params |-> <<"dict", "{}">>, body |-> <<"str", "">>,
            context_type |-> <<"str", "">>, context_id |-> <<"str", "">>,
            context_data |-> <<"dict", "{}">>]],
     MessageDeliveryWebhook |->
        [required |-> <<"message_id">>,
         defaults |-> [
            conversation_id |-> <<"str", "">>,
            channel_message_id |-> <<"str", "">>, status |-> <<"str", "">>,
            error_message |-> <<"str", "">>,
            timestamp |-> <<"NoneType", "None">>]]]

\* messaging/templates.py
messaging_templates ==
    [
     TemplateButton |->
        [required |-> <<"id", "title">>,
         defaults |-> <<>>],
     TemplateParameter |->
        [required |-> <<>>,
         defaults |-> [
            type |-> <<"str", "text">>, text |-> <<"str", "">>]],
     WhatsAppTemplate |->
        [required |-> <<"name">>,
         defaults |-> [
            language |-> <<"str", "en_US">>,
            category |-> <<"str", "UTILITY">>,
            components |-> <<"list", "[]">>]],
     InteractiveMessage |->
        [required |-> <<"body_text">>,
         defaults |-> [
            buttons |-> <<"list", "[]">>, header_text |-> <<"str", "">>,
            footer_text |-> <<"str", "">>]]]

\* tax/estimate_result.py
tax_estimate_result ==
    [
     QuarterlyPayment |->
        [required |-> <<"quarter">>,
         defaults |-> [
            due_date |-> <<"str", "">>,
            federal_amount |-> <<"Decimal", "0">>,
            state_amount |-> <<"Decimal", "0">>,
            total_amount |-> <<"Decimal", "0">>, status |-> <<"str", "">>]],
     TaxComputeResponse |->
        [required |-> <<>>,
         defaults |-> [
            tenant_id |-> <<"str", "">>, client_id |-> <<"str", "">>,
            tax_year |-> <<"int", "2025">>, as_of_month |-> <<"int", "0">>,
            projected_annual_revenue |-> <<"Decimal", "0">>,
            projected_annual_expenses |-> <<"Decimal", "0">>,
            projected_net_income |-> <<"Decimal", "0">>,
            total_federal_tax |-> <<"Decimal", "0">>,
            total_state_tax |-> <<"Decimal", "0">>,
            total_self_employment_tax |-> <<"Decimal", "0">>,
            total_tax_liability |-> <<"Decimal", "0">>,
            recommended_set_aside_pct |-> <<"Decimal", "0">>,
            recommended_monthly_set_aside |-> <<"Decimal", "0">>,
            quarterly_payments |-> <<"list", "[]">>,
            effective_tax_rate |-> <<"Decimal", "0">>,
            marginal_tax_rate |-> <<"Decimal", "0">>,
            qbi_deduction |-> <<"Decimal", "0">>,
            engine_version |-> <<"str", "">>]]]

\* enums.py: the members of each enumeration and their values
enums ==
    [
     SourceSystem |->
        ("HUB" :> "hub" @@ "QBO_LEG" :> "qbo_leg" @@
         "GL_LEG" :> "gl_leg" @@ "AI_TRANSLATOR" :> "ai_translator" @@
         "MESSAGING" :> "messaging" @@ "TAX_ENGINE" :> "tax_engine"),
     AccountType |->
        ("ASSET" :> "asset" @@ "LIABILITY" :> "liability" @@
         "EQUITY" :> "equity" @@ "REVENUE" :> "revenue" @@
         "EXPENSE" :> "expense" @@
         "COST_OF_GOODS_SOLD" :> "cost_of_goods_sold" @@
         "OTHER_INCOME" :> "other_income" @@
         "OTHER_EXPENSE" :> "other_expense"),
     TransactionType |->
        ("DEBIT" :> "debit" @@ "CREDIT" :> "credit"),
     BankAccountType |->
        ("CHECKING" :> "checking" @@ "SAVINGS" :> "savings" @@
         "CREDIT_CARD" :> "credit_card" @@
         "LINE_OF_CREDIT" :> "line_of_credit" @@ "LOAN" :> "loan" @@
         "OTHER" :> "other"),
     ConfidenceBand |->
        ("HIGH" :> "high" @@ "MEDIUM" :> "medium" @@ "LOW" :> "low" @@
         "UNCERTAIN" :> "uncertain"),
     ClassificationSource |->
        ("RULE" :> "rule" @@ "AI" :> "ai" @@
         "HISTORICAL" :> "historical" @@ "CLIENT" :> "client" @@
         "ACCOUNTANT" :> "accountant"),
     ReviewStatus |->
        ("PENDING" :> "pending" @@ "APPROVED" :> "approved" @@
         "REJECTED" :> "rejected" @@ "MODIFIED" :> "modified" @@
         "AUTO_APPLIED" :> "auto_applied"),
     SuspenseReason |->
        ("LOW_CONFIDENCE" :> "low_confidence" @@
         "NEEDS_CLIENT_INPUT" :> "needs_client_input" @@
         "MONTHLY_CALL" :> "monthly_call" @@ "DECLINED" :> "declined" @@
         "ESCALATED_MAX_CLARIFICATION" :> "escalated_max_clarification"),
     RiskSeverity |->
        ("LOW" :> "low" @@ "MEDIUM" :> "medium" @@ "HIGH" :> "high" @@
         "CRITICAL" :> "critical"),
     MessageDirection |->
        ("INBOUND" :> "inbound" @@ "OUTBOUND" :> "outbound"),
     MessageStatus |->
        ("QUEUED" :> "queued" @@ "SENT" :> "sent" @@
         "DELIVERED" :> "delivered" @@ "READ" :> "read" @@
         "FAILED" :> "failed"),
     ConsentType |->
        ("OPT_IN" :> "opt_in" @@ "OPT_OUT" :> "opt_out" @@
         "REVOKED" :> "revoked"),
     ConversationStatus |->
        ("ACTIVE" :> "active" @@ "WAITING_REPLY" :> "waiting_reply" @@
         "TIMED_OUT" :> "timed_out" @@ "COMPLETED" :> "completed"),
     EntityType |->
        ("SOLE_PROPRIETOR" :> "sole_proprietor" @@ "LLC" :> "llc" @@
         "S_CORP" :> "s_corp" @@ "C_CORP" :> "c_corp" @@
         "PARTNERSHIP" :> "partnership"),
     TaxFilingType |->
        ("SCHEDULE_C" :> "schedule_c" @@ "FORM_1120S" :> "form_1120s" @@
         "FORM_1120" :> "form_1120" @@ "FORM_1065" :> "form_1065")]

\* the declaration of every class, by the name of the class
classes ==
    accounting_account @@
    accounting_classification @@
    accounting_suspense @@
    accounting_transaction @@
    accounting_vendor @@
    common_identifiers @@
    common_timestamps @@
    events_event @@
    messaging_conversation @@
    messaging_message @@
    messaging_templates @@
    tax_estimate_result

Required(type) == classes[type].required
Defaults(type) == classes[type].defaults

\* the fields the vocabularies of enums.py are meant for; no class declares
\* one of them with the enumeration, each is a str
ClosedVocabulary ==
    [account_type |-> {"AccountType"}, transaction_type |-> {"TransactionType"},
     bank_account_type |-> {"BankAccountType"}, confidence_band |-> {"ConfidenceBand"},
     source |-> {"ClassificationSource"}, reason |-> {"SuspenseReason"},
     severity |-> {"RiskSeverity"}, direction |-> {"MessageDirection"},
     status |-> {"MessageStatus", "ConversationStatus"},
     entity_type |-> {"EntityType"}, tax_filing_type |-> {"TaxFilingType"}]

\* the values a client gives to a vocabulary field: a member of one of its
\* enumerations, or a str that is the token of none
VocabularyValues(f) ==
    {<<"str", "bogus">>} \cup
    UNION {{<<e, m>> : m \in DOMAIN enums[e]} : e \in ClosedVocabulary[f]}

\* the optional arguments of a construction: none, or one vocabulary field
GivenInputs(type) ==
    {<<>>} \cup
    UNION {{f :> v : v \in VocabularyValues(f)} :
           f \in DOMAIN Defaults(type) \cap DOMAIN ClosedVocabulary}

\* a str field that keeps the name of the member it is given
StoredName(v) == <<"str", v[2]>>

\* what a field keeps of the value it is given: a value of its type as it
\* is, and of a member of a StrEnum the str that is its value
Stored(v) == IF v[1] \in DOMAIN enums THEN <<"str", enums[v[1]][v[2]]>> ELSE v

\* a clock that is read once, for the first event, and not again
utc_read_once ==
    IF other.type \in {"PlatformEvent", "AuditEvent"} THEN other.stamps.timestamp ELSE clock

\* common/timestamps.py: utc_now()
utc_now == clock

DatetimeFields(type) == {f \in DOMAIN Defaults(type) : Defaults(type)[f][1] = "datetime"}

\* the fields a construction was given
model_fields_set(kwargs) == {f \in DOMAIN kwargs : kwargs[f] # Omitted}

ContainerFields(type) ==
    {f \in DOMAIN Defaults(type) : Defaults(type)[f][1] \in {"list", "dict"}}

\* one container, made when the class is declared, for all the instances
default_of_class(holder, f) == <<"class", f>>

\* Field(default_factory=list), Field(default_factory=dict): the factory
\* is called at each construction, and the container it makes is the one of
\* the instance under construction alone.  An instance is named by the
\* variable that holds it.
default_factory(holder, f) == <<holder, f>>

\* the container field f of the instance under construction is the object
\* that field f of the instance held in other is
SameContainer(type, f) ==
    /\ other.type = type
    /\ f \notin other.model_fields_set
    /\ default_factory("rec", f) = default_factory("other", f)

\* a field that keeps a month outside 1..12 as 12
OptionalWithinYear(type, kwargs) ==
    [f \in DOMAIN Defaults(type) \ DatetimeFields(type) |->
        IF f \in DOMAIN kwargs
        THEN (IF f = "as_of_month"
                    /\ kwargs[f][2] \notin {"1", "2", "3", "4", "5", "6", "7", "8", "9",
                                            "10", "11", "12"}
              THEN <<"int", "12">> ELSE Stored(kwargs[f]))
        ELSE IF f \in ContainerFields(type) /\ SameContainer(type, f)
             THEN other.optional[f]
             ELSE Defaults(type)[f]]

\* the fields that have a default: the value given, or else the default; a
\* container has the contents of the object it is
Optional(type, kwargs) ==
    [f \in DOMAIN Defaults(type) \ DatetimeFields(type) |->
        IF f \in DOMAIN kwargs THEN Stored(kwargs[f])
        ELSE IF f \in ContainerFields(type) /\ SameContainer(type, f)
             THEN other.optional[f]
             ELSE Defaults(type)[f]]

\* the fields whose default is read from the clock when the instance is made
Stamps(type, kwargs) ==
    [f \in DatetimeFields(type) |->
        IF f \in DOMAIN kwargs THEN kwargs[f][2] ELSE utc_now]

----------------------------------------------------------------------------
(* The record types that add fields with no constraint of their own to     *)
(* VersionedSchema.  A field value is given as Omitted or as a value of    *)
(* the type of the field.                                                  *)

AValue == <<"v">>

DerivedVersionInputs ==
    {Omitted, <<"0", ".", "1">>, <<"1", "x">>, <<"1", ".", "sup2">>}

\* the fields with no default, in the order of their declaration
BankTransactionRequired ==
    <<"transaction_id", "description", "amount", "transaction_date">>
SuspenseItemRequired == <<"suspense_id", "transaction_id", "client_id", "tenant_id">>
TransactionClassificationRequestRequired == <<"tenant_id", "client_id", "transactions">>
SendMessageRequestRequired == <<"tenant_id", "client_id", "contact_phone">>
StartConversationRequestRequired == <<"tenant_id", "client_id", "contact_phone">>
ConversationSessionRequired == <<"conversation_id", "contact_phone">>
TaxComputeResponseRequired == <<>>

FieldNames(fields) == {fields[i] : i \in 1..Len(fields)}

\* the keyword arguments: each field is left out or given one of the values
KwargsInputs(fields, values) == [FieldNames(fields) -> {Omitted} \cup values]

\* the "missing" errors of the required fields, in the order of the fields
RECURSIVE MissingFields(_, _)
MissingFields(required, kwargs) ==
    IF required = <<>> THEN <<>>
    ELSE (IF kwargs[Head(required)] = Omitted THEN <<Missing(Head(required))>> ELSE <<>>)
         \o MissingFields(Tail(required), kwargs)

\* the error of the schema_version field, if it has one
VersionErrors(schema_version) ==
    IF schema_version_field(schema_version).ok THEN <<>>
    ELSE <<schema_version_field(schema_version).error>>

\* a validation that stops at the first field in error
RecordErrorsFirstOnly(required, schema_version, kwargs) ==
    LET errs == VersionErrors(schema_version) \o MissingFields(required, kwargs)
    IN  IF errs = <<>> THEN <<>> ELSE <<errs[1]>>

\* the errors of all the fields: those of the base class first, then those
\* of the class, in the order of the fields
RecordErrors(required, schema_version, kwargs) ==
    VersionErrors(schema_version) \o MissingFields(required, kwargs)

\* a construction that stores the schema_version it is given as it is
ConstructUnvalidated(type, required, schema_version, kwargs) ==
    LET errs == MissingFields(required, kwargs) IN
    /\ call' = [op |-> type, arg |-> [schema_version |-> schema_version, kwargs |-> kwargs]]
    /\ seen' = Unseen
    /\ IF errs = <<>>
       THEN /\ rec' = [type |-> type,
                       schema_version |-> IF schema_version = Omitted THEN DefaultVersion
                                          ELSE schema_version,
                       fields |-> [f \in FieldNames(required) |-> kwargs[f]],
                       optional |-> Optional(type, kwargs),
                       stamps |-> Stamps(type, kwargs),
                       model_fields_set |-> model_fields_set(kwargs)]
            /\ ret' = Instance
       ELSE /\ rec' = NoRecord
            /\ ret' = ValidationError(errs)

\* type(schema_version=..., **kwargs): every field is validated, and the
\* instance exists only if none is in error; a field that is not given
\* holds its default
Construct(type, required, schema_version, kwargs) ==
    LET errs == RecordErrors(required, schema_version, kwargs) IN
    /\ call' = [op |-> type, arg |-> [schema_version |-> schema_version, kwargs |-> kwargs]]
    /\ seen' = Unseen
    /\ IF errs = <<>>
       THEN /\ rec' = [type |-> type,
                       schema_version |-> schema_version_field(schema_version).value,
                       fields |-> [f \in FieldNames(required) |-> kwargs[f]],
                       optional |-> Optional(type, kwargs),
                       stamps |-> Stamps(type, kwargs),
                       model_fields_set |-> model_fields_set(kwargs)]
            /\ ret' = Instance
       ELSE /\ rec' = NoRecord
            /\ ret' = ValidationError(errs)

NewBankTransaction ==
    /\ call = Idle
    /\ rec = NoRecord
    /\ \E schema_version \in DerivedVersionInputs,
          kwargs \in KwargsInputs(BankTransactionRequired, {AValue}),
          given \in GivenInputs("BankTransaction") :
          Construct("BankTransaction", BankTransactionRequired, schema_version, kwargs @@ given)
    /\ UNCHANGED <<clock, other>>

NewSuspenseItem ==
    /\ call = Idle
    /\ rec = NoRecord
    /\ \E schema_version \in DerivedVersionInputs,
          kwargs \in KwargsInputs(SuspenseItemRequired, {AValue}),
          given \in GivenInputs("SuspenseItem") :
          Construct("SuspenseItem", SuspenseItemRequired, schema_version, kwargs @@ given)
    /\ UNCHANGED <<clock, other>>

NewTransactionClassificationRequest ==
    /\ call = Idle
    /\ rec = NoRecord
    /\ \E schema_version \in DerivedVersionInputs,
          kwargs \in KwargsInputs(TransactionClassificationRequestRequired, {AValue}),
          given \in GivenInputs("TransactionClassificationRequest") :
          Construct("TransactionClassificationRequest",
                    TransactionClassificationRequestRequired, schema_version, kwargs @@ given)
    /\ UNCHANGED <<clock, other>>

NewSendMessageRequest ==
    /\ call = Idle
    /\ rec = NoRecord
    /\ \E schema_version \in DerivedVersionInputs,
          kwargs \in KwargsInputs(SendMessageRequestRequired, {AValue}),
          given \in GivenInputs("SendMessageRequest") :
          Construct("SendMessageRequest", SendMessageRequestRequired, schema_version, kwargs @@ given)
    /\ UNCHANGED <<clock, other>>

NewStartConversationRequest ==
    /\ call = Idle
    /\ rec = NoRecord
    /\ \E schema_version \in DerivedVersionInputs,
          kwargs \in KwargsInputs(StartConversationRequestRequired, {AValue}),
          given \in GivenInputs("StartConversationRequest") :
          Construct("StartConversationRequest", StartConversationRequestRequired,
                    schema_version, kwargs @@ given)
    /\ UNCHANGED <<clock, other>>

NewConversationSession ==
    /\ call = Idle
    /\ rec = NoRecord
    /\ \E schema_version \in DerivedVersionInputs,
          kwargs \in KwargsInputs(ConversationSessionRequired, {AValue}),
          given \in GivenInputs("ConversationSession") :
          Construct("ConversationSession", ConversationSessionRequired, schema_version, kwargs @@ given)
    /\ UNCHANGED <<clock, other>>

\* the as_of_month arguments of a response: 0, 6, 13 and -1
AsOfMonthGiven == {"as_of_month" :> <<"int", m>> : m \in {"0", "6", "13", "-1"}}

NewTaxComputeResponse ==
    /\ call = Idle
    /\ rec = NoRecord
    /\ \E schema_version \in DerivedVersionInputs,
          kwargs \in KwargsInputs(TaxComputeResponseRequired, {AValue}),
          given \in GivenInputs("TaxComputeResponse") \cup AsOfMonthGiven :
          Construct("TaxComputeResponse", TaxComputeResponseRequired, schema_version, kwargs @@ given)
    /\ UNCHANGED <<clock, other>>

\* the classes that derive from BaseModel directly and put no constraint on
\* a field (RiskFlag of accounting/classification.py is left to the one of
\* accounting/risk.py, which has the same name)
BaseModels ==
    {"Account", "ClientContext", "AvailableAccount", "ExistingRule", "HistoricalPattern",
     "TransactionForClassification", "Vendor", "TenantRef", "ExternalRef",
     "TimestampMixin", "ConversationStep", "ConversationReplyWebhook",
     "MessageDeliveryWebhook", "TemplateParameter", "WhatsAppTemplate",
     "QuarterlyPayment"}

\* a construction that leaves an optional field out of the instance until
\* it is given
BaseModelWithoutDefaults(type, kwargs) ==
    LET errs == MissingFields(Required(type), kwargs) IN
    /\ call' = [op |-> type, arg |-> [kwargs |-> kwargs]]
    /\ seen' = Unseen
    /\ IF errs = <<>>
       THEN /\ rec' = [type |-> type,
                       fields |-> [f \in FieldNames(Required(type)) |-> kwargs[f]],
                       optional |-> [f \in DOMAIN kwargs \ FieldNames(Required(type)) |->
                                        Stored(kwargs[f])],
                       stamps |-> Stamps(type, kwargs),
                       model_fields_set |-> model_fields_set(kwargs)]
            /\ ret' = Instance
       ELSE /\ rec' = NoRecord
            /\ ret' = ValidationError(errs)

\* type(**kwargs) for a class that derives from BaseModel directly
BaseModel(type, kwargs) ==
    LET errs == MissingFields(Required(type), kwargs) IN
    /\ call' = [op |-> type, arg |-> [kwargs |-> kwargs]]
    /\ seen' = Unseen
    /\ IF errs = <<>>
       THEN /\ rec' = [type |-> type,
                       fields |-> [f \in FieldNames(Required(type)) |-> kwargs[f]],
                       optional |-> Optional(type, kwargs),
                       stamps |-> Stamps(type, kwargs),
                       model_fields_set |-> model_fields_set(kwargs)]
            /\ ret' = Instance
       ELSE /\ rec' = NoRecord
            /\ ret' = ValidationError(errs)

NewBaseModel ==
    /\ call = Idle
    /\ rec = NoRecord
    /\ \E type \in BaseModels :
          \E kwargs \in KwargsInputs(Required(type), {AValue}),
             given \in GivenInputs(type) :
             BaseModel(type, kwargs @@ given)
    /\ UNCHANGED <<clock, other>>

----------------------------------------------------------------------------
(* accounting/classification.py                                            *)
(* A number argument is NotGiven or Given(x).  A float is modelled by the  *)
(* number of tenths it is: 0.5 is 5, 1.0 is 10, -0.1 is -1.                *)

NotGiven == <<>>
Given(x) == <<x>>

\* Field(ge=0.0, le=1.0), in tenths
ConfidenceGe == 0
ConfidenceLe == 10
\* confidence: float = 0.0
DefaultConfidence == 0

ConfidenceInputs ==
    {NotGiven}
    \cup {Given(c) : c \in (ConfidenceGe - MaxOutside)..(ConfidenceLe + MaxOutside)}

GreaterThanEqual(field) == [type |-> "greater_than_equal", loc |-> field, msg |-> <<>>]
LessThanEqual(field) == [type |-> "less_than_equal", loc |-> field, msg |-> <<>>]

\* a range check that leaves the two bounds out
ConfidenceErrorsExclusive(confidence) ==
    IF confidence = NotGiven THEN <<Missing("confidence")>>
    ELSE IF confidence[1] >= ConfidenceLe THEN <<LessThanEqual("confidence")>>
    ELSE IF confidence[1] <= ConfidenceGe THEN <<GreaterThanEqual("confidence")>>
    ELSE <<>>

\* TransactionClassificationResult.confidence: required, ge=0.0, le=1.0
ConfidenceErrors(confidence) ==
    IF confidence = NotGiven THEN <<Missing("confidence")>>
    ELSE IF confidence[1] > ConfidenceLe THEN <<LessThanEqual("confidence")>>
    ELSE IF confidence[1] < ConfidenceGe THEN <<GreaterThanEqual("confidence")>>
    ELSE <<>>

\* the errors of a TransactionClassificationResult given as keyword
\* arguments or as a dict, in the order of the fields
TransactionClassificationResultErrors(data) ==
    VersionErrors(data.schema_version)
    \o (IF data.transaction_id = Omitted THEN <<Missing("transaction_id")>> ELSE <<>>)
    \o ConfidenceErrors(data.confidence)

\* the instance validation makes of valid data
ValidatedTransactionClassificationResult(data) ==
    [type |-> "TransactionClassificationResult",
     schema_version |-> schema_version_field(data.schema_version).value,
     transaction_id |-> data.transaction_id,
     confidence |-> data.confidence[1]]

\* TransactionClassificationResult(schema_version=..., transaction_id=...,
\* confidence=...)
TransactionClassificationResult(data) ==
    LET errs == TransactionClassificationResultErrors(data) IN
    /\ call' = [op |-> "TransactionClassificationResult", arg |-> data]
    /\ seen' = Unseen
    /\ IF errs = <<>>
       THEN /\ rec' = ValidatedTransactionClassificationResult(data)
            /\ ret' = Instance
       ELSE /\ rec' = NoRecord
            /\ ret' = ValidationError(errs)

TransactionClassificationResultInputs ==
    [schema_version : DerivedVersionInputs, transaction_id : {Omitted, AValue},
     confidence : ConfidenceInputs]

NewTransactionClassificationResult ==
    /\ call = Idle
    /\ rec = NoRecord
    /\ \E data \in TransactionClassificationResultInputs :
          TransactionClassificationResult(data)
    /\ UNCHANGED <<clock, other>>

\* AlternativeSuggestion(account_id=..., confidence=...)
AlternativeSuggestion(account_id, confidence) ==
    LET errs == IF account_id = Omitted THEN <<Missing("account_id")>> ELSE <<>> IN
    /\ call' = [op |-> "AlternativeSuggestion",
                arg |-> [account_id |-> account_id, confidence |-> confidence]]
    /\ seen' = Unseen
    /\ IF errs = <<>>
       THEN /\ rec' = [type |-> "AlternativeSuggestion", account_id |-> account_id,
                       confidence |-> IF confidence = NotGiven THEN DefaultConfidence
                                      ELSE confidence[1]]
            /\ ret' = Instance
       ELSE /\ rec' = NoRecord
            /\ ret' = ValidationError(errs)

NewAlternativeSuggestion ==
    /\ call = Idle
    /\ rec = NoRecord
    /\ \E account_id \in {Omitted, AValue}, confidence \in ConfidenceInputs :
          AlternativeSuggestion(account_id, confidence)
    /\ UNCHANGED <<clock, other>>

\* the errors of a SuggestedRule given as keyword arguments or as a dict
SuggestedRuleErrors(data) ==
    (IF data.pattern = Omitted THEN <<Missing("pattern")>> ELSE <<>>)
    \o (IF data.suggested_account_id = Omitted
        THEN <<Missing("suggested_account_id")>> ELSE <<>>)

ValidatedSuggestedRule(data) ==
    [type |-> "SuggestedRule", pattern |-> data.pattern,
     suggested_account_id |-> data.suggested_account_id,
     confidence |-> IF data.confidence = NotGiven THEN DefaultConfidence
                    ELSE data.confidence[1]]

\* SuggestedRule(pattern=..., suggested_account_id=..., confidence=...)
SuggestedRule(data) ==
    LET errs == SuggestedRuleErrors(data) IN
    /\ call' = [op |-> "SuggestedRule", arg |-> data]
    /\ seen' = Unseen
    /\ IF errs = <<>>
       THEN /\ rec' = ValidatedSuggestedRule(data)
            /\ ret' = Instance
       ELSE /\ rec' = NoRecord
            /\ ret' = ValidationError(errs)

SuggestedRuleInputs ==
    [pattern : {Omitted, AValue}, suggested_account_id : {Omitted, AValue},
     confidence : ConfidenceInputs]

NewSuggestedRule ==
    /\ call = Idle
    /\ rec = NoRecord
    /\ \E data \in SuggestedRuleInputs : SuggestedRule(data)
    /\ UNCHANGED <<clock, other>>

----------------------------------------------------------------------------
(* tax/estimate_request.py *)

\* Field(ge=1, le=12)
AsOfMonthGe == 1
AsOfMonthLe == 12

AsOfMonthInputs ==
    {NotGiven} \cup {Given(m) : m \in (AsOfMonthGe - MaxOutside)..(AsOfMonthLe + MaxOutside)}

\* a range check on the months numbered from 0
AsOfMonthErrorsFromZero(as_of_month) ==
    IF as_of_month = NotGiven THEN <<Missing("as_of_month")>>
    ELSE IF as_of_month[1] > AsOfMonthLe - 1 THEN <<LessThanEqual("as_of_month")>>
    ELSE IF as_of_month[1] < AsOfMonthGe - 1 THEN <<GreaterThanEqual("as_of_month")>>
    ELSE <<>>

\* TaxComputeRequest.as_of_month: required, ge=1, le=12
AsOfMonthErrors(as_of_month) ==
    IF as_of_month = NotGiven THEN <<Missing("as_of_month")>>
    ELSE IF as_of_month[1] > AsOfMonthLe THEN <<LessThanEqual("as_of_month")>>
    ELSE IF as_of_month[1] < AsOfMonthGe THEN <<GreaterThanEqual("as_of_month")>>
    ELSE <<>>

\* TaxComputeRequest(schema_version=..., as_of_month=...)
TaxComputeRequest(schema_version, as_of_month) ==
    LET errs == VersionErrors(schema_version) \o AsOfMonthErrors(as_of_month) IN
    /\ call' = [op |-> "TaxComputeRequest",
                arg |-> [schema_version |-> schema_version, as_of_month |-> as_of_month]]
    /\ seen' = Unseen
    /\ IF errs = <<>>
       THEN /\ rec' = [type |-> "TaxComputeRequest",
                       schema_version |-> schema_version_field(schema_version).value,
                       as_of_month |-> as_of_month[1]]
            /\ ret' = Instance
       ELSE /\ rec' = NoRecord
            /\ ret' = ValidationError(errs)

NewTaxComputeRequest ==
    /\ call = Idle
    /\ rec = NoRecord
    /\ \E schema_version \in DerivedVersionInputs, as_of_month \in AsOfMonthInputs :
          TaxComputeRequest(schema_version, as_of_month)
    /\ UNCHANGED <<clock, other>>

----------------------------------------------------------------------------
(* messaging/templates.py *)

\* Field(..., max_length=20)
TitleMaxLength == 20

\* a title of n characters
Title(n) == [i \in 1..n |-> "t"]

TitleInputs == {Omitted} \cup {Title(n) : n \in 0..(TitleMaxLength + MaxOutside)}

\* a length check that lets in one character less
TemplateButtonErrorsBelow(data) ==
    (IF data.id = Omitted THEN <<Missing("id")>> ELSE <<>>)
    \o (IF data.title = Omitted THEN <<Missing("title")>>
        ELSE IF Len(data.title) >= TitleMaxLength THEN <<StringTooLong("title")>>
        ELSE <<>>)

\* the errors of a TemplateButton given as keyword arguments or as a dict
TemplateButtonErrors(data) ==
    (IF data.id = Omitted THEN <<Missing("id")>> ELSE <<>>)
    \o (IF data.title = Omitted THEN <<Missing("title")>>
        ELSE IF Len(data.title) > TitleMaxLength THEN <<StringTooLong("title")>>
        ELSE <<>>)

ValidatedTemplateButton(data) ==
    [type |-> "TemplateButton", id |-> data.id, title |-> data.title]

\* TemplateButton(id=..., title=...)
TemplateButton(data) ==
    LET errs == TemplateButtonErrors(data) IN
    /\ call' = [op |-> "TemplateButton", arg |-> data]
    /\ seen' = Unseen
    /\ IF errs = <<>>
       THEN /\ rec' = ValidatedTemplateButton(data)
            /\ ret' = Instance
       ELSE /\ rec' = NoRecord
            /\ ret' = ValidationError(errs)

NewTemplateButton ==
    /\ call = Idle
    /\ rec = NoRecord
    /\ \E data \in [id : {Omitted, AValue}, title : TitleInputs] : TemplateButton(data)
    /\ UNCHANGED <<clock, other>>

----------------------------------------------------------------------------
(* Records with a list of child records.  A child is given as a dict, and  *)
(* is validated as the keyword arguments of its type are.                  *)

RECURSIVE Flatten(_)
Flatten(seqs) == IF seqs = <<>> THEN <<>> ELSE Head(seqs) \o Flatten(Tail(seqs))

\* the errors of the items of a list field, item after item, each located
\* by the field, the index of the item and the field of the item
NestedErrors(field, errorsOfItem) ==
    Flatten([i \in 1..Len(errorsOfItem) |->
                [j \in 1..Len(errorsOfItem[i]) |->
                    [errorsOfItem[i][j] EXCEPT !.loc = <<field, i - 1, @>>]]])

ListsUpTo(items, n) == UNION {[1..k -> items] : k \in 0..n}

\* buttons with and without id, with a title of 20 and of 21 characters
ButtonDataInputs ==
    [id : {Omitted, AValue}, title : {Title(TitleMaxLength), Title(TitleMaxLength + 1)}]

InteractiveMessageErrors(body_text, buttons) ==
    (IF body_text = Omitted THEN <<Missing("body_text")>> ELSE <<>>)
    \o NestedErrors("buttons", [i \in 1..Len(buttons) |-> TemplateButtonErrors(buttons[i])])

\* a constructor that leaves out the buttons that are in error
InteractiveMessageSkippingInvalid(body_text, buttons) ==
    LET errs == InteractiveMessageErrors(body_text, buttons)
        valid == SelectSeq(buttons, LAMBDA b : TemplateButtonErrors(b) = <<>>)
    IN
    /\ call' = [op |-> "InteractiveMessage",
                arg |-> [body_text |-> body_text, buttons |-> buttons]]
    /\ seen' = Unseen
    /\ IF body_text # Omitted
       THEN /\ rec' = [type |-> "InteractiveMessage", body_text |-> body_text,
                       buttons |-> [i \in 1..Len(valid) |->
                                       ValidatedTemplateButton(valid[i])]]
            /\ ret' = Instance
       ELSE /\ rec' = NoRecord
            /\ ret' = ValidationError(errs)

\* InteractiveMessage(body_text=..., buttons=[{...}, ...])
InteractiveMessage(body_text, buttons) ==
    LET errs == InteractiveMessageErrors(body_text, buttons) IN
    /\ call' = [op |-> "InteractiveMessage",
                arg |-> [body_text |-> body_text, buttons |-> buttons]]
    /\ seen' = Unseen
    /\ IF errs = <<>>
       THEN /\ rec' = [type |-> "InteractiveMessage", body_text |-> body_text,
                       buttons |-> [i \in 1..Len(buttons) |->
                                       ValidatedTemplateButton(buttons[i])]]
            /\ ret' = Instance
       ELSE /\ rec' = NoRecord
            /\ ret' = ValidationError(errs)

NewInteractiveMessage ==
    /\ call = Idle
    /\ rec = NoRecord
    /\ \E body_text \in {Omitted, AValue}, buttons \in ListsUpTo(ButtonDataInputs, MaxChildren) :
          InteractiveMessage(body_text, buttons)
    /\ UNCHANGED <<clock, other>>

\* ClassificationResponseMeta(request_id=request_id)
ClassificationResponseMeta(request_id) ==
    [type |-> "ClassificationResponseMeta", request_id |-> request_id]

\* ClassificationResponseMeta(): request_id is ""
DefaultClassificationResponseMeta == ClassificationResponseMeta(<<>>)

MetaInputs ==
    {NotGiven, Given(ClassificationResponseMeta(<<"r1">>)),
     Given(ClassificationResponseMeta(<<"r2">>))}

\* classifications with confidence 0.0, 1.0 and 1.1
ResultDataInputs ==
    [schema_version : {Omitted}, transaction_id : {AValue},
     confidence : {Given(ConfidenceGe), Given(ConfidenceLe), Given(ConfidenceLe + 1)}]

ClassificationsInputs ==
    {NotGiven} \cup {Given(l) : l \in ListsUpTo(ResultDataInputs, MaxChildren)}

\* the field without populate_by_name: the alias is the only input key
MetaFieldByAliasOnly(kwargs) ==
    IF kwargs._meta # NotGiven THEN kwargs._meta[1]
    ELSE DefaultClassificationResponseMeta

\* the value of the field meta, whose alias is "_meta": the value given
\* under the alias, or else (populate_by_name) the value given under the
\* name, or else the default
MetaField(kwargs) ==
    IF kwargs._meta # NotGiven THEN kwargs._meta[1]
    ELSE IF kwargs.meta # NotGiven THEN kwargs.meta[1]
    ELSE DefaultClassificationResponseMeta

BatchClassificationResponseErrors(kwargs) ==
    VersionErrors(kwargs.schema_version)
    \o (IF kwargs.classifications = NotGiven THEN <<Missing("classifications")>>
        ELSE NestedErrors("classifications",
                          [i \in 1..Len(kwargs.classifications[1]) |->
                              TransactionClassificationResultErrors(
                                  kwargs.classifications[1][i])]))

\* BatchClassificationResponse(schema_version=..., classifications=[{...},
\* ...], meta=..., _meta=...); suggested_rules is left at its default
BatchClassificationResponse(kwargs) ==
    LET errs == BatchClassificationResponseErrors(kwargs) IN
    /\ call' = [op |-> "BatchClassificationResponse", arg |-> kwargs]
    /\ seen' = Unseen
    /\ IF errs = <<>>
       THEN /\ rec' = [type |-> "BatchClassificationResponse",
                       schema_version |-> schema_version_field(kwargs.schema_version).value,
                       classifications |->
                           [i \in 1..Len(kwargs.classifications[1]) |->
                               ValidatedTransactionClassificationResult(
                                   kwargs.classifications[1][i])],
                       meta |-> MetaField(kwargs)]
            /\ ret' = Instance
       ELSE /\ rec' = NoRecord
            /\ ret' = ValidationError(errs)

NewBatchClassificationResponse ==
    /\ call = Idle
    /\ rec = NoRecord
    /\ \E kwargs \in [schema_version : DerivedVersionInputs,
                      classifications : ClassificationsInputs,
                      meta : MetaInputs, _meta : MetaInputs] :
          BatchClassificationResponse(kwargs)
    /\ UNCHANGED <<clock, other>>

\* model_dump(by_alias=by_alias) of a BatchClassificationResponse: the dict
\* of the fields, keyed by the names of the fields, or by their aliases
\* where they have one if by_alias is set
model_dump(self, by_alias) ==
    IF by_alias
    THEN [schema_version |-> self.schema_version,
          classifications |-> self.classifications, _meta |-> self.meta]
    ELSE [schema_version |-> self.schema_version,
          classifications |-> self.classifications, meta |-> self.meta]

\* rec.model_dump() and rec.model_dump(by_alias=...); by_alias is False when
\* it is not given, and the model configuration sets no serialization option
CallModelDump ==
    /\ call = Idle
    /\ rec.type = "BatchClassificationResponse"
    /\ \E by_alias \in {NotGiven, Given(TRUE), Given(FALSE)} :
          /\ call' = [op |-> "model_dump", arg |-> by_alias]
          /\ ret' = Returned(model_dump(rec, IF by_alias = NotGiven THEN FALSE
                                             ELSE by_alias[1]))
    /\ UNCHANGED <<rec, seen>>
    /\ UNCHANGED <<clock, other>>

----------------------------------------------------------------------------
(* accounting/risk.py, events/event.py, events/audit_event.py *)

\* the keys of KNOWN_RISK_CODES
KNOWN_RISK_CODES ==
    {"OWNER_TXN_POSSIBLE", "LARGE_AMOUNT", "DUPLICATE_POSSIBLE", "TAX_SENSITIVE",
     "PERSONAL_EXPENSE", "ROUND_AMOUNT", "NEW_VENDOR", "PATTERN_BREAK"}

KNOWN_EVENT_TYPES ==
    <<"transaction.classified", "transaction.posted", "clarification.requested",
      "clarification.completed", "clarification.timed_out", "suspense.created",
      "suspense.cleared", "digest.generated", "digest.approved", "message.sent",
      "message.delivered", "message.read", "message.failed", "conversation.started",
      "conversation.completed", "conversation.timed_out">>

\* a code of the catalog and one that is not in it
CodeInputs == {<<"LARGE_AMOUNT">>, <<"CUSTOM_CODE">>}
\* an event type of the catalog and one that is not in it
EventTypeInputs == {<<"transaction.classified">>, <<"transaction.updated">>}

\* a constructor that looks the code up in the catalog
RiskFlagKnownOnly(code, severity) ==
    /\ call' = [op |-> "RiskFlag", arg |-> [code |-> code, severity |-> severity]]
    /\ seen' = Unseen
    /\ IF code # Omitted /\ code[1] \in KNOWN_RISK_CODES
       THEN /\ rec' = [type |-> "RiskFlag", code |-> code,
                       severity |-> IF severity = Omitted THEN <<"str", "medium">>
                                    ELSE Stored(severity)]
            /\ ret' = Instance
       ELSE /\ rec' = NoRecord
            /\ ret' = ValidationError(IF code = Omitted THEN <<Missing("code")>>
                                      ELSE <<[type |-> "value_error", loc |-> "code",
                                              msg |-> <<>>]>>)

\* RiskFlag(code=..., severity=...); severity is "medium" when it is not
\* given
RiskFlag(code, severity) ==
    /\ call' = [op |-> "RiskFlag", arg |-> [code |-> code, severity |-> severity]]
    /\ seen' = Unseen
    /\ IF code # Omitted
       THEN /\ rec' = [type |-> "RiskFlag", code |-> code,
                       severity |-> IF severity = Omitted THEN <<"str", "medium">>
                                    ELSE Stored(severity)]
            /\ ret' = Instance
       ELSE /\ rec' = NoRecord
            /\ ret' = ValidationError(<<Missing("code")>>)

NewRiskFlag ==
    /\ call = Idle
    /\ rec = NoRecord
    /\ \E code \in {Omitted} \cup CodeInputs,
          severity \in {Omitted} \cup VocabularyValues("severity") :
          RiskFlag(code, severity)
    /\ UNCHANGED <<clock, other>>

PlatformEventRequired == <<"event_type">>

\* the timestamp arguments: none, or a time that the clock never shows
TimestampInputs == {<<>>, "timestamp" :> <<"datetime", -1>>}

NewPlatformEvent ==
    /\ call = Idle
    /\ rec = NoRecord
    /\ \E schema_version \in DerivedVersionInputs,
          kwargs \in KwargsInputs(PlatformEventRequired, EventTypeInputs),
          timestamp \in TimestampInputs :
          Construct("PlatformEvent", PlatformEventRequired, schema_version,
                    kwargs @@ timestamp)
    /\ UNCHANGED <<clock, other>>

\* AuditEvent(event_type=..., timestamp=...); event_type is "" when it is
\* not given, and timestamp is what utc_now() returns
NewAuditEvent ==
    /\ call = Idle
    /\ rec = NoRecord
    /\ \E event_type \in {Omitted} \cup EventTypeInputs, timestamp \in TimestampInputs :
          /\ call' = [op |-> "AuditEvent",
                      arg |-> [event_type |-> event_type, kwargs |-> timestamp]]
          /\ rec' = [type |-> "AuditEvent",
                     event_type |-> IF event_type = Omitted THEN <<>> ELSE event_type,
                     stamps |-> [f \in {"timestamp"} |->
                                    IF f \in DOMAIN timestamp THEN timestamp[f][2]
                                    ELSE utc_now],
                     model_fields_set |->
                        DOMAIN timestamp
                        \cup (IF event_type = Omitted THEN {} ELSE {"event_type"})]
    /\ ret' = Instance
    /\ seen' = Unseen
    /\ UNCHANGED <<clock, other>>

----------------------------------------------------------------------------
(* Assignment to the fields of a live record.  No model sets frozen or     *)
(* validate_assignment, so the value is stored as it is.                   *)

AssignedVersions == {<<"1", "x">>}

\* rec.schema_version = v
SetSchemaVersion ==
    /\ call = Idle
    /\ rec.type \in {"VersionedSchema", "JournalEntry"}
    /\ \E v \in AssignedVersions :
          /\ rec' = [rec EXCEPT !.schema_version = v]
          /\ call' = [op |-> "setattr", arg |-> <<"schema_version">>]
    /\ ret' = NoneYet
    /\ seen' = Unseen
    /\ UNCHANGED <<clock, other>>

\* rec.amount = amount
SetAmount ==
    /\ call = Idle
    /\ rec.type = "Money"
    /\ \E amount \in AmountInputs :
          /\ rec' = [rec EXCEPT !.amount = amount]
          /\ call' = [op |-> "setattr", arg |-> <<"amount">>]
    /\ ret' = NoneYet
    /\ seen' = Unseen
    /\ UNCHANGED <<clock, other>>

\* rec.lines.append(line)
\* the list that is the lines of the entry held in rec is the list that is
\* the lines of the entry held in other
SameLines ==
    other.type = "JournalEntry" /\ default_factory("rec", "lines") = default_factory("other", "lines")

AppendLine ==
    /\ call = Idle
    /\ rec.type = "JournalEntry"
    /\ Len(rec.lines) < MaxLines
    /\ \E line \in LineInputs :
          /\ rec' = [rec EXCEPT !.lines = Append(@, line)]
          /\ other' = IF SameLines THEN [other EXCEPT !.lines = Append(@, line)] ELSE other
          /\ call' = [op |-> "append", arg |-> <<"lines">>]
    /\ ret' = NoneYet
    /\ seen' = Unseen
    /\ UNCHANGED clock

----------------------------------------------------------------------------
(* The client *)

\* the outcome of the last operation is taken note of; the record stays
Continue ==
    /\ call # Idle
    /\ call' = Idle
    /\ ret' = NoneYet
    /\ UNCHANGED <<rec, seen>>
    /\ UNCHANGED <<clock, other>>

\* the client drops its reference to the record
Discard ==
    /\ call = Idle
    /\ rec # NoRecord
    /\ rec' = NoRecord
    /\ seen' = Unseen
    /\ UNCHANGED <<call, ret>>
    /\ UNCHANGED <<clock, other>>

----------------------------------------------------------------------------
(* A client that holds two instances.  It keeps the first as soon as it is *)
(* constructed, constructs others, and adds to the containers of the one   *)
(* it constructed last; the clock moves on between its operations.         *)

MaxClock == 2

\* time passes
Tick ==
    /\ call = Idle
    /\ clock < MaxClock
    /\ clock' = clock + 1
    /\ UNCHANGED <<rec, call, ret, seen, other>>

\* the client keeps the instance it has just constructed
Keep ==
    /\ ret.kind = "instance"
    /\ other = NoRecord
    /\ other' = rec
    /\ rec' = NoRecord
    /\ call' = Idle
    /\ ret' = NoneYet
    /\ UNCHANGED <<seen, clock>>

\* BankTransaction(...) and ConversationSession(...) with the required
\* fields and nothing else
NewWithDefaults ==
    /\ call = Idle
    /\ rec = NoRecord
    /\ \E type \in {"BankTransaction", "ConversationSession"} :
          Construct(type, Required(type), Omitted,
                    [f \in FieldNames(Required(type)) |-> AValue])
    /\ UNCHANGED <<clock, other>>

\* JournalEntry(entry_date=...): lines is the list the default factory
\* makes
NewJournalEntryWithoutLines ==
    /\ call = Idle
    /\ rec = NoRecord
    /\ other.type \in {"None", "JournalEntry"}
    /\ JournalEntry(Omitted, <<"2024-01-15">>, IF SameLines THEN other.lines ELSE <<>>)
    /\ UNCHANGED <<clock, other>>

\* rec.f.append(x) for a list f, rec.f[k] = x for a dict f: the container
\* changes, and so does every field that is the same container
AddElement ==
    LET Added(v) == IF v[1] = "list" THEN <<"list", "[x]">> ELSE <<"dict", "{k: x}">> IN
    /\ call = Idle
    /\ "optional" \in DOMAIN rec
    /\ \E f \in ContainerFields(rec.type) :
          /\ rec.optional[f] = Defaults(rec.type)[f]
          /\ rec' = [rec EXCEPT !.optional[f] = Added(@)]
          /\ other' = IF f \notin rec.model_fields_set /\ SameContainer(rec.type, f)
                      THEN [other EXCEPT !.optional[f] = Added(@)]
                      ELSE other
          /\ call' = [op |-> "add", arg |-> <<f>>]
    /\ ret' = NoneYet
    /\ seen' = Unseen
    /\ UNCHANGED clock

Init ==
    /\ rec = NoRecord
    /\ call = Idle
    /\ ret = NoneYet
    /\ seen = Unseen
    /\ clock = 0
    /\ other = NoRecord

Next ==
    \/ NewVersionedSchema
    \/ CallIsCompatible
    \/ NewMoney
    \/ CallIsPositive
    \/ CallIsNegative
    \/ CallIsZero
    \/ NewJournalEntry
    \/ CallIsBalanced
    \/ SetSchemaVersion
    \/ SetAmount
    \/ AppendLine
    \/ NewBankTransaction
    \/ NewSuspenseItem
    \/ NewTransactionClassificationRequest
    \/ NewSendMessageRequest
    \/ NewStartConversationRequest
    \/ NewConversationSession
    \/ NewTaxComputeResponse
    \/ NewBaseModel
    \/ NewTransactionClassificationResult
    \/ NewAlternativeSuggestion
    \/ NewSuggestedRule
    \/ NewTaxComputeRequest
    \/ NewTemplateButton
    \/ NewInteractiveMessage
    \/ NewBatchClassificationResponse
    \/ CallModelDump
    \/ NewRiskFlag
    \/ NewPlatformEvent
    \/ NewAuditEvent
    \/ Continue
    \/ Discard

Spec == Init /\ [][Next]_vars

NextPair ==
    \/ NewWithDefaults
    \/ NewPlatformEvent
    \/ NewAuditEvent
    \/ NewJournalEntryWithoutLines
    \/ Keep
    \/ AddElement
    \/ AppendLine
    \/ Tick
    \/ Continue
    \/ Discard

SpecPair == Init /\ [][NextPair]_vars

----------------------------------------------------------------------------
(* Properties *)

\* one or more decimal digits, a single ".", one or more decimal digits
WellFormed(s) ==
    \E i \in 2..(Len(s) - 1) :
        /\ s[i] = "."
        /\ \A j \in (1..Len(s)) \ {i} : s[j] \in DecimalDigits

\* the text before the first "." of s, or the whole of s if it has none
MajorText(s) == IF HasDot(s) THEN SubSeq(s, 1, FirstDot(s) - 1) ELSE s

\* the total of the amounts xs with no rounding at any step
RECURSIVE ExactSum(_)
ExactSum(xs) ==
    IF xs = <<>> THEN Zero ELSE ExactAdd(ExactSum(SubSeq(xs, 1, Len(xs) - 1)), xs[Len(xs)])

\* the debit total of the lines equals their credit total
TotalsEqual(lines) == Cmp(ExactSum(Debits(lines)), ExactSum(Credits(lines))) = 0

\* 1, 0, -1 as the amount is above, at, below zero
SignOf(x) == IF IsZeroCoef(x.coef) THEN 0 ELSE IF x.sign = 1 THEN -1 ELSE 1

Methods == {"is_compatible", "is_positive", "is_negative", "is_zero", "is_balanced"}

\* C1: a VersionedSchema constructed with a schema_version of one or more
\* decimal digits, a ".", and one or more decimal digits is constructed, and
\* its schema_version is that very string.
C1_WellFormedStoredUnchanged ==
    (call.op = "VersionedSchema" /\ call.arg # Omitted /\ WellFormed(call.arg))
        => /\ ret.kind = "instance"
           /\ rec.type = "VersionedSchema"
           /\ rec.schema_version = call.arg

\* "01.0" went in and "01.0" is stored
C1_Witness ==
    /\ call.op = "VersionedSchema"
    /\ call.arg = <<"0", "1", ".", "0">>
    /\ rec.type = "VersionedSchema"
    /\ rec.schema_version = <<"0", "1", ".", "0">>

\* C2: a VersionedSchema constructed with a schema_version that is not two
\* non-empty all-digit segments separated by one "." fails with a validation
\* error that names the string and the 'major.minor' shape, and there is no
\* instance.
C2_MalformedRejected ==
    (call.op = "VersionedSchema" /\ call.arg # Omitted /\ ~WellFormed(call.arg))
        => /\ ret.kind = "ValidationError"
           /\ rec = NoRecord
           /\ Len(ret.errors) = 1
           /\ ret.errors[1].msg =
                <<"Invalid schema version format: ", call.arg, ". Expected 'major.minor'.">>

\* C3: for a well-formed other_version, is_compatible returns true exactly
\* when the text before the first "." of the record's schema_version is, as
\* a string, the text before the first "." of other_version.
C3_CompatibleIffSameMajorText ==
    (call.op = "is_compatible" /\ WellFormed(call.arg))
        => /\ ret.kind = "value"
           /\ ret.value = (MajorText(rec.schema_version) = MajorText(call.arg))

\* major "01" against major "1": not compatible
C3_Witness ==
    /\ call.op = "is_compatible"
    /\ rec.schema_version = <<"0", "1", ".", "0">>
    /\ call.arg = <<"1", ".", "0">>
    /\ ret.value = FALSE

\* C4: is_compatible raises for no string whatever: it returns a boolean,
\* the comparison of the record's major text with the text of other_version
\* before its first ".", or with all of other_version if it has no ".".
C4_IsCompatibleNeverRaises ==
    call.op = "is_compatible"
        => /\ ret.kind = "value"
           /\ ret.value \in BOOLEAN
           /\ ret.value = (MajorText(rec.schema_version) = MajorText(call.arg))

\* other_version "1", which has no ".", is compared as a whole
C4_Witness ==
    /\ call.op = "is_compatible"
    /\ ~HasDot(call.arg)
    /\ call.arg # <<>>
    /\ ret.kind = "value"
    /\ ret.value = TRUE

\* C5: is_balanced returns true exactly when the sum of the debits of the
\* lines equals the sum of their credits.
C5_BalancedIffTotalsEqual ==
    call.op = "is_balanced"
        => /\ ret.kind = "value"
           /\ ret.value = TotalsEqual(rec.lines)

\* C6: the totals is_balanced compares are the exact totals of the debits
\* and of the credits: no step of the summation rounds.
C6_SummationExact ==
    call.op = "is_balanced"
        => /\ Cmp(sum(Debits(rec.lines), Zero), ExactSum(Debits(rec.lines))) = 0
           /\ Cmp(sum(Credits(rec.lines), Zero), ExactSum(Credits(rec.lines))) = 0

\* C7: on a Money, is_positive returns amount > 0, is_negative amount < 0,
\* is_zero amount = 0, and of the three exactly one returns true.
C7_SignPartition ==
    rec.type = "Money"
        => /\ \A i \in 1..Len(seen.is_positive) :
                seen.is_positive[i] = (SignOf(rec.amount) = 1)
           /\ \A i \in 1..Len(seen.is_negative) :
                seen.is_negative[i] = (SignOf(rec.amount) = -1)
           /\ \A i \in 1..Len(seen.is_zero) :
                seen.is_zero[i] = (SignOf(rec.amount) = 0)
           /\ (seen.is_positive # <<>> /\ seen.is_negative # <<>> /\ seen.is_zero # <<>>)
                => Cardinality({m \in {"is_positive", "is_negative", "is_zero"} :
                                    seen[m][1]}) = 1

\* 0.00: is_zero alone returned true
C7_Witness ==
    /\ rec.type = "Money"
    /\ rec.amount = Dec(0, <<0>>, -2)
    /\ seen.is_zero # <<>> /\ seen.is_zero[1]
    /\ seen.is_positive # <<>> /\ ~seen.is_positive[1]
    /\ seen.is_negative # <<>> /\ ~seen.is_negative[1]

C9_UnbalancedAccepted ==
    (/\ call.op = "JournalEntry"
     /\ schema_version_field(call.arg[1]).ok
     /\ call.arg[2] # Omitted)
        => /\ ret.kind = "instance"
           /\ rec.type = "JournalEntry"
           /\ rec.lines = call.arg[3]

\* an entry whose debits and credits differ was constructed
C9_Witness ==
    /\ call.op = "JournalEntry"
    /\ ret.kind = "instance"
    /\ rec.lines # <<>>
    /\ ~TotalsEqual(rec.lines)
    /\ ~is_balanced(rec).value

\* C10: is_balanced leaves the entry and its lines as they are, and the
\* calls made on an entry that has not changed all return the same boolean.
C10_IsBalancedPure ==
    /\ [][call'.op = "is_balanced" => rec' = rec]_vars
    /\ [](\A i, j \in 1..Len(seen.is_balanced) :
            seen.is_balanced[i] = seen.is_balanced[j])

\* is_balanced was called twice on an entry with lines
C10_Witness ==
    /\ call.op = "is_balanced"
    /\ rec.lines # <<>>
    /\ Len(seen.is_balanced) = 2

\* the fields the errors of the validation error are located on
ErrorLocs == {ret.errors[i].loc : i \in 1..Len(ret.errors)}

\* the schema_version passed is one the validator of VersionedSchema rejects
VersionRejected(schema_version) ==
    schema_version # Omitted /\ ~validate_version(schema_version).ok

PlainTypes ==
    {"BankTransaction", "SuspenseItem", "TransactionClassificationRequest",
     "SendMessageRequest", "StartConversationRequest", "ConversationSession",
     "TaxComputeResponse", "PlatformEvent"}

\* the fields of the construction under way that break a constraint: the
\* required fields left out and the schema_version, if it is rejected
ViolatedFields ==
    {f \in DOMAIN call.arg.kwargs : call.arg.kwargs[f] = Omitted}
    \cup (IF VersionRejected(call.arg.schema_version) THEN {"schema_version"} ELSE {})

\* C11: a construction that breaks the constraints of several fields raises
\* one validation error, which has one error for each of these fields and
\* none for any other field.
C11_EveryViolatedFieldReported ==
    /\ call.op \in PlainTypes
        => IF ViolatedFields = {} THEN ret.kind = "instance"
           ELSE /\ ret.kind = "ValidationError"
                /\ ErrorLocs = ViolatedFields
                /\ Len(ret.errors) = Cardinality(ViolatedFields)
    /\ call.op = "TaxComputeRequest"
        => ErrorLocs =
             (IF VersionRejected(call.arg.schema_version) THEN {"schema_version"} ELSE {})
             \cup (IF call.arg.as_of_month # NotGiven /\ call.arg.as_of_month[1] \in 1..12
                   THEN {} ELSE {"as_of_month"})
    /\ call.op = "TemplateButton"
        => ErrorLocs =
             (IF call.arg.id = Omitted THEN {"id"} ELSE {})
             \cup (IF call.arg.title # Omitted /\ Len(call.arg.title) <= 20
                   THEN {} ELSE {"title"})

\* SendMessageRequest(schema_version="1x"): four fields are reported
C11_Witness ==
    /\ call.op = "SendMessageRequest"
    /\ call.arg.schema_version = <<"1", "x">>
    /\ \A f \in DOMAIN call.arg.kwargs : call.arg.kwargs[f] = Omitted
    /\ ErrorLocs = {"schema_version", "tenant_id", "client_id", "contact_phone"}

\* C13: a TransactionClassificationResult has no error on confidence exactly
\* when a confidence c with 0.0 <= c <= 1.0 is given; with its other fields
\* valid it is then constructed with that confidence, and with a confidence
\* below 0.0, above 1.0 or left out it is not constructed.
C13_ConfidenceInUnitInterval ==
    call.op = "TransactionClassificationResult"
        => LET c == call.arg.confidence
               within == c # NotGiven /\ 0 <= c[1] /\ c[1] <= 10
           IN  /\ within <=> "confidence" \notin ErrorLocs
               /\ ~within => ret.kind = "ValidationError" /\ rec = NoRecord
               /\ (/\ within
                   /\ call.arg.transaction_id # Omitted
                   /\ ~VersionRejected(call.arg.schema_version))
                    => /\ ret.kind = "instance"
                       /\ rec.type = "TransactionClassificationResult"
                       /\ rec.confidence = c[1]

\* confidence 1.0 was given and is stored
C13_Witness ==
    /\ call.op = "TransactionClassificationResult"
    /\ call.arg.confidence = Given(10)
    /\ ret.kind = "instance"
    /\ rec.confidence = 10

\* C14: TransactionClassificationResult, AlternativeSuggestion and
\* SuggestedRule each reject a confidence below 0.0 or above 1.0.
C14_ConfidenceRangeEverywhere ==
    (/\ call.op \in {"TransactionClassificationResult", "AlternativeSuggestion",
                     "SuggestedRule"}
     /\ call.arg.confidence # NotGiven
     /\ (call.arg.confidence[1] < 0 \/ call.arg.confidence[1] > 10))
        => ret.kind = "ValidationError" /\ rec = NoRecord

\* C15: a TaxComputeRequest has no error on as_of_month exactly when an
\* integer m with 1 <= m <= 12 is given; it is then constructed (its
\* schema_version being accepted) with as_of_month m, and with any other
\* integer, or with none, it is not constructed and an error is located on
\* as_of_month.
C15_AsOfMonthOneToTwelve ==
    call.op = "TaxComputeRequest"
        => LET m == call.arg.as_of_month
               within == m # NotGiven /\ m[1] \in 1..12
           IN  /\ within <=> "as_of_month" \notin ErrorLocs
               /\ ~within => ret.kind = "ValidationError" /\ rec = NoRecord
               /\ (within /\ ~VersionRejected(call.arg.schema_version))
                    => /\ ret.kind = "instance"
                       /\ rec.type = "TaxComputeRequest"
                       /\ rec.as_of_month = m[1]

\* month 12 was given and is stored
C15_Witness ==
    /\ call.op = "TaxComputeRequest"
    /\ call.arg.as_of_month = Given(12)
    /\ ret.kind = "instance"
    /\ rec.as_of_month = 12

\* C16: a TemplateButton has no error on title exactly when a title of at
\* most 20 characters is given; it is then constructed (its id being given)
\* with that very title, and with a longer title it is not constructed and an
\* error is located on title.
C16_TitleAtMostTwenty ==
    call.op = "TemplateButton"
        => LET title == call.arg.title
               fits == title # Omitted /\ Len(title) <= 20
           IN  /\ fits <=> "title" \notin ErrorLocs
               /\ ~fits => ret.kind = "ValidationError" /\ rec = NoRecord
               /\ (fits /\ call.arg.id # Omitted)
                    => /\ ret.kind = "instance"
                       /\ rec.type = "TemplateButton"
                       /\ rec.title = title

\* a title of 20 characters was given and is stored
C16_Witness ==
    /\ call.op = "TemplateButton"
    /\ call.arg.title # Omitted
    /\ Len(call.arg.title) = 20
    /\ ret.kind = "instance"
    /\ rec.title = call.arg.title

\* the operations that construct a record
Constructors ==
    PlainTypes \cup BaseModels \cup {"VersionedSchema", "Money", "JournalEntry",
                     "TransactionClassificationResult", "AlternativeSuggestion",
                     "SuggestedRule", "TaxComputeRequest", "TemplateButton",
                     "InteractiveMessage", "BatchClassificationResponse", "RiskFlag",
                     "AuditEvent"}

\* the button data has an id and a title of at most 20 characters
ButtonFits(b) == b.id # Omitted /\ b.title # Omitted /\ Len(b.title) <= 20

\* the classification data has a transaction_id, a confidence from 0.0 to
\* 1.0 and no rejected schema_version
ClassificationFits(c) ==
    /\ c.transaction_id # Omitted
    /\ c.confidence # NotGiven /\ 0 <= c.confidence[1] /\ c.confidence[1] <= 10
    /\ ~VersionRejected(c.schema_version)

\* the batch response is given classifications that all fit, and no
\* rejected schema_version
BatchFits(kwargs) ==
    /\ ~VersionRejected(kwargs.schema_version)
    /\ kwargs.classifications # NotGiven
    /\ \A i \in 1..Len(kwargs.classifications[1]) :
          ClassificationFits(kwargs.classifications[1][i])

\* C12: a construction that raises leaves no instance behind; an
\* InteractiveMessage or a BatchClassificationResponse one of whose children,
\* given as dicts, breaks a constraint is not constructed, and one that is
\* constructed has a child for each dict it was given, in their order.
C12_AllOrNothing ==
    /\ (call.op \in Constructors /\ ret.kind # "instance") => rec = NoRecord
    /\ call.op = "InteractiveMessage"
        => IF /\ call.arg.body_text # Omitted
              /\ \A i \in 1..Len(call.arg.buttons) : ButtonFits(call.arg.buttons[i])
           THEN /\ ret.kind = "instance"
                /\ rec.body_text = call.arg.body_text
                /\ Len(rec.buttons) = Len(call.arg.buttons)
                /\ \A i \in 1..Len(rec.buttons) :
                      /\ rec.buttons[i].id = call.arg.buttons[i].id
                      /\ rec.buttons[i].title = call.arg.buttons[i].title
           ELSE ret.kind = "ValidationError" /\ rec = NoRecord
    /\ call.op = "BatchClassificationResponse"
        => IF BatchFits(call.arg)
           THEN /\ ret.kind = "instance"
                /\ Len(rec.classifications) = Len(call.arg.classifications[1])
                /\ \A i \in 1..Len(rec.classifications) :
                      rec.classifications[i].confidence
                          = call.arg.classifications[1][i].confidence[1]
           ELSE ret.kind = "ValidationError" /\ rec = NoRecord

\* a batch response given a classification of confidence 1.0 and one of
\* confidence 1.1 was not constructed
C12_Witness ==
    /\ call.op = "BatchClassificationResponse"
    /\ call.arg.classifications # NotGiven
    /\ Len(call.arg.classifications[1]) = 2
    /\ call.arg.classifications[1][1].confidence = Given(10)
    /\ call.arg.classifications[1][2].confidence = Given(11)
    /\ ret.kind = "ValidationError"
    /\ rec = NoRecord

\* C18: a BatchClassificationResponse is constructed whether its metadata is
\* given under "meta", under "_meta" or not at all; response.meta is then the
\* record given under the one key that was used, and the default
\* ClassificationResponseMeta if none was.
C18_MetaUnderNameOrAlias ==
    (call.op = "BatchClassificationResponse" /\ BatchFits(call.arg))
        => /\ ret.kind = "instance"
           /\ (call.arg.meta # NotGiven /\ call.arg._meta = NotGiven)
                => rec.meta = call.arg.meta[1]
           /\ (call.arg.meta = NotGiven /\ call.arg._meta # NotGiven)
                => rec.meta = call.arg._meta[1]
           /\ (call.arg.meta = NotGiven /\ call.arg._meta = NotGiven)
                => rec.meta = [type |-> "ClassificationResponseMeta", request_id |-> <<>>]

\* the metadata was given under "meta" and is read as response.meta
C18_Witness ==
    /\ call.op = "BatchClassificationResponse"
    /\ call.arg.meta = Given(ClassificationResponseMeta(<<"r1">>))
    /\ call.arg._meta = NotGiven
    /\ ret.kind = "instance"
    /\ rec.meta.request_id = <<"r1">>

\* C19: model_dump() with no argument emits the metadata of a
\* BatchClassificationResponse under the key "_meta" and not under "meta".
C19_DumpedUnderAlias ==
    (call.op = "model_dump" /\ call.arg = NotGiven)
        => /\ "_meta" \in DOMAIN ret.value
           /\ "meta" \notin DOMAIN ret.value

\* C20: a RiskFlag is constructed with the code it is given and a
\* PlatformEvent or an AuditEvent with the event_type it is given, in the
\* catalog or not, and stores it as it is; KNOWN_RISK_CODES has 8 codes and
\* KNOWN_EVENT_TYPES 16 event types.
C20_CatalogsAreReferenceOnly ==
    /\ (call.op = "RiskFlag" /\ call.arg.code # Omitted)
        => ret.kind = "instance" /\ rec.type = "RiskFlag" /\ rec.code = call.arg.code
    /\ (/\ call.op = "PlatformEvent"
        /\ call.arg.kwargs.event_type # Omitted
        /\ ~VersionRejected(call.arg.schema_version))
        => /\ ret.kind = "instance"
           /\ rec.type = "PlatformEvent"
           /\ rec.fields.event_type = call.arg.kwargs.event_type
    /\ (call.op = "AuditEvent" /\ call.arg.event_type # Omitted)
        => /\ ret.kind = "instance"
           /\ rec.type = "AuditEvent"
           /\ rec.event_type = call.arg.event_type
    /\ Cardinality(KNOWN_RISK_CODES) = 8
    /\ Len(KNOWN_EVENT_TYPES) = 16
    /\ Cardinality({KNOWN_EVENT_TYPES[i] : i \in 1..Len(KNOWN_EVENT_TYPES)}) = 16

\* a RiskFlag with a code that is not in the catalog was constructed
C20_Witness ==
    /\ call.op = "RiskFlag"
    /\ ret.kind = "instance"
    /\ rec.code[1] \notin KNOWN_RISK_CODES

\* the record types derived from VersionedSchema
DerivedTypes ==
    PlainTypes \cup {"JournalEntry", "TransactionClassificationResult",
                     "BatchClassificationResponse", "TaxComputeRequest"}

\* the schema_version argument of the construction under way
VersionArgument ==
    IF call.op = "JournalEntry" THEN call.arg[1] ELSE call.arg.schema_version

\* C17: a record of a type derived from VersionedSchema that is constructed
\* has the schema_version it was given, and "1.0" if it was given none; given
\* a schema_version that VersionedSchema rejects it is not constructed, and
\* the error is the one of VersionedSchema; given any other it has no error
\* from the version rule; and its is_compatible returns whether the texts
\* before the first "." of its schema_version and of other_version are equal.
C17_DerivedTypesVersionedAlike ==
    /\ call.op \in DerivedTypes
        => /\ VersionRejected(VersionArgument)
                => /\ ret.kind = "ValidationError"
                   /\ rec = NoRecord
                   /\ ret.errors[1] = ValueError(VersionArgument)
           /\ ~VersionRejected(VersionArgument)
                => \A i \in 1..Len(ret.errors) : ret.errors[i].type # "value_error"
           /\ ret.kind = "instance"
                => /\ rec.type = call.op
                   /\ rec.schema_version = IF VersionArgument = Omitted
                                           THEN <<"1", ".", "0">> ELSE VersionArgument
    /\ (call.op = "is_compatible" /\ rec.type \in DerivedTypes)
        => /\ ret.kind = "value"
           /\ ret.value = (MajorText(rec.schema_version) = MajorText(call.arg))

\* a SuspenseItem given no schema_version has "1.0" and is compatible with
\* "1.1"
C17_Witness ==
    /\ call.op = "is_compatible"
    /\ rec.type = "SuspenseItem"
    /\ rec.schema_version = <<"1", ".", "0">>
    /\ call.arg = <<"1", ".", "1">>
    /\ ret.value = TRUE

\* The constructors that take their fields from the declarations.
Declared == PlainTypes \cup BaseModels

\* The vocabulary fields a construction was given a value for.
GivenVocabulary ==
    (DOMAIN call.arg.kwargs \cap DOMAIN Defaults(call.op)) \cap DOMAIN ClosedVocabulary

\* C21: every closed-vocabulary field is declared as a free-form string
\* (none is declared as its enumeration): a token of no enumeration given
\* for such a field puts no error on the field and is stored verbatim, and
\* an enumeration member given for it stores a str equal to the member's
\* lowercase token.
C21_VocabularyFieldsAreFreeForm ==
    /\ enums.AccountType["EXPENSE"] = "expense"
    /\ enums.BankAccountType["CHECKING"] = "checking"
    /\ enums.TransactionType["DEBIT"] = "debit"
    /\ call.op \in Declared
        => \A f \in GivenVocabulary :
              LET v == call.arg.kwargs[f] IN
              /\ \A i \in 1..Len(ret.errors) : ret.errors[i].loc # f
              /\ ret.kind = "instance"
                    => rec.optional[f] =
                          IF v[1] = "str" THEN v ELSE <<"str", enums[v[1]][v[2]]>>
    /\ (call.op = "RiskFlag" /\ call.arg.severity # Omitted /\ call.arg.code # Omitted)
        => /\ ret.kind = "instance"
           /\ rec.severity =
                 IF call.arg.severity[1] = "str" THEN call.arg.severity
                 ELSE <<"str", enums[call.arg.severity[1]][call.arg.severity[2]]>>

\* a token outside BankAccountType is stored verbatim in a BankTransaction
C21_Witness ==
    /\ call.op = "BankTransaction"
    /\ "bank_account_type" \in DOMAIN call.arg.kwargs
    /\ call.arg.kwargs.bank_account_type = <<"str", "bogus">>
    /\ ret.kind = "instance"
    /\ rec.optional.bank_account_type = <<"str", "bogus">>

\* C22: every constructed Money has a currency of exactly three characters.
C22_CurrencyOfThreeLetters ==
    rec.type = "Money" => Len(rec.currency) = 3

\* The defaults the contract names.
NamedDefaults ==
    [ConversationSession |->
        [channel |-> <<"str", "whatsapp">>, status |-> <<"str", "active">>,
         current_state |-> <<"str", "initial">>],
     StartConversationRequest |->
        [channel |-> <<"str", "whatsapp">>, timeout_minutes |-> <<"int", "1440">>],
     SendMessageRequest |-> [channel |-> <<"str", "whatsapp">>],
     TaxComputeResponse |-> [tax_year |-> <<"int", "2025">>]]

\* The empty string, list and dict, zero, false and true, and null.
EmptyValues ==
    {<<"str", "">>, <<"list", "[]">>, <<"dict", "{}">>, <<"int", "0">>,
     <<"float", "0.0">>, <<"Decimal", "0">>, <<"bool", "False">>, <<"bool", "True">>,
     <<"NoneType", "None">>}

\* The other literals a field is declared with.
OtherLiterals ==
    {<<"str", "text">>, <<"str", "en_US">>, <<"str", "UTILITY">>,
     <<"ClientContext", "ClientContext()">>}

\* The default the contract gives for field f of the type under
\* construction.
IsContractDefault(f, v) ==
    IF call.op \in DOMAIN NamedDefaults /\ f \in DOMAIN NamedDefaults[call.op]
    THEN v = NamedDefaults[call.op][f]
    ELSE v \in EmptyValues \cup OtherLiterals

\* C23: a record type constructed with exactly its required fields is
\* constructed, and every optional field that was not given holds its
\* declared default (schema_version "1.0", a timestamp the clock reading);
\* a construction that leaves a required field out is rejected with a
\* "missing" error on that field and constructs nothing.
C23_RequiredAndDefaults ==
    /\ call.op \in Declared
        => LET kwargs == call.arg.kwargs
               required == FieldNames(Required(call.op))
               missing == {f \in required : kwargs[f] = Omitted}
               versioned == call.op \in PlainTypes
           IN  /\ missing # {}
                    => /\ ret.kind = "ValidationError"
                       /\ rec = NoRecord
                       /\ \A f \in missing :
                             \E i \in 1..Len(ret.errors) : ret.errors[i] = Missing(f)
               /\ (/\ missing = {}
                   /\ DOMAIN kwargs = required
                   /\ versioned => call.arg.schema_version = Omitted)
                    => /\ ret.kind = "instance"
                       /\ rec.type = call.op
                       /\ versioned => rec.schema_version = <<"1", ".", "0">>
                       /\ DOMAIN rec.optional \cup DOMAIN rec.stamps
                             = DOMAIN Defaults(call.op)
               /\ ret.kind = "instance"
                    => /\ \A f \in DOMAIN Defaults(call.op) \ DOMAIN kwargs :
                             IF f \in DOMAIN rec.stamps
                             THEN rec.stamps[f] = clock
                             ELSE /\ f \in DOMAIN rec.optional
                                  /\ rec.optional[f] = Defaults(call.op)[f]
                                  /\ IsContractDefault(f, rec.optional[f])
    /\ call.op = "RiskFlag"
        => /\ call.arg.code = Omitted => ret.kind = "ValidationError" /\ rec = NoRecord
           /\ (call.arg.code # Omitted /\ call.arg.severity = Omitted)
                => ret.kind = "instance" /\ rec.severity = <<"str", "medium">>
    /\ call.op = "Money"
        => /\ call.arg[1] = NoAmount => ret.kind = "ValidationError" /\ rec = NoRecord
           /\ (call.arg[1] # NoAmount /\ call.arg[2] = Omitted)
                => ret.kind = "instance" /\ rec.currency = <<"U", "S", "D">>

\* a ConversationSession made from its two required fields alone
C23_Witness ==
    /\ call.op = "ConversationSession"
    /\ DOMAIN call.arg.kwargs = {"conversation_id", "contact_phone"}
    /\ call.arg.schema_version = Omitted
    /\ ret.kind = "instance"
    /\ rec.optional.channel = <<"str", "whatsapp">>
    /\ rec.optional.status = <<"str", "active">>
    /\ rec.optional.current_state = <<"str", "initial">>
    /\ rec.optional.steps = <<"list", "[]">>

\* C24: every instance satisfies the constraints of its fields, whatever
\* constructions and assignments came before: a schema_version is of the
\* major.minor form, the confidence of a TransactionClassificationResult is
\* within [0.0, 1.0], the as_of_month of a TaxComputeRequest within 1..12,
\* and the title of a TemplateButton has at most 20 characters.
C24_InstancesKeepTheirConstraints ==
    /\ "schema_version" \in DOMAIN rec => WellFormed(rec.schema_version)
    /\ rec.type = "TransactionClassificationResult"
        => 0 <= rec.confidence /\ rec.confidence <= 10
    /\ rec.type = "TaxComputeRequest" => 1 <= rec.as_of_month /\ rec.as_of_month <= 12
    /\ rec.type = "TemplateButton" => Len(rec.title) <= 20

\* The well-formed versions among those a record is asked about.
WellFormedVersions == {v \in OtherVersionInputs : WellFormed(v)}

\* x.is_compatible(v) for a record x
Compatible(x, v) == is_compatible(x, v).value

\* C25: over well-formed versions, compatibility is an equivalence: a
\* record is compatible with its own version; it is compatible with a
\* version exactly when a record of that version is compatible with its
\* version; and if it is compatible with a version, it is compatible with
\* every version a record of that version is compatible with.
C25_CompatibilityIsAnEquivalence ==
    (/\ call.op = "is_compatible"
     /\ WellFormed(rec.schema_version)
     /\ WellFormed(call.arg))
        => LET b == [type |-> "VersionedSchema", schema_version |-> call.arg] IN
           /\ ret.kind = "value"
           /\ Compatible(rec, rec.schema_version)
           /\ ret.value = Compatible(b, rec.schema_version)
           /\ \A c \in WellFormedVersions :
                 (ret.value /\ Compatible(b, c)) => Compatible(rec, c)

\* "1.10" is asked about "1.0" and is compatible with it
C25_Witness ==
    /\ call.op = "is_compatible"
    /\ rec.schema_version = <<"1", ".", "1", "0">>
    /\ call.arg = <<"1", ".", "0">>
    /\ ret.kind = "value"
    /\ ret.value = TRUE

\* The lines in the order p puts them in.
Reordered(lines, p) == [i \in 1..Len(lines) |-> lines[p[i]]]

\* C26: is_balanced returns for an entry what it returns for the entry
\* with the same lines in any other order.
C26_VerdictIndependentOfLineOrder ==
    call.op = "is_balanced"
        => \A p \in Permutations(1..Len(rec.lines)) :
              is_balanced([rec EXCEPT !.lines = Reordered(rec.lines, p)]).value = ret.value

\* C27: a JournalEntry takes lines with a negative amount and lines with
\* both a debit and a credit as they are; is_balanced returns true for a
\* single line whose debit equals its credit, and for the two lines with
\* debits 5 and -5 and no credit.
C27_LinesUnconstrained ==
    /\ (/\ call.op = "JournalEntry"
        /\ ~VersionRejected(call.arg[1])
        /\ call.arg[2] # Omitted)
        => ret.kind = "instance" /\ rec.lines = call.arg[3]
    /\ (/\ call.op = "is_balanced"
        /\ Len(rec.lines) = 1
        /\ Cmp(rec.lines[1].debit, rec.lines[1].credit) = 0)
        => ret.value = TRUE
    /\ (/\ call.op = "is_balanced"
        /\ Len(rec.lines) = 2
        /\ {rec.lines[1], rec.lines[2]} = {Debit(Dec(0, <<5>>, 0)), Debit(Dec(1, <<5>>, 0))})
        => ret.value = TRUE

\* debits of 5 and of -5, no credit: balanced
C27_Witness ==
    /\ call.op = "is_balanced"
    /\ rec.lines = <<Debit(Dec(0, <<5>>, 0)), Debit(Dec(1, <<5>>, 0))>>
    /\ ret.value = TRUE

\* C30: a TaxComputeResponse is constructed with whatever integer it is
\* given as as_of_month (13 and -1 as well as 6) and with 0 when it is
\* given none, and has no error on that field; a TaxComputeRequest given 0
\* or 13 is rejected.
C30_MonthBoundOnRequestOnly ==
    /\ call.op = "TaxComputeResponse"
        => /\ \A i \in 1..Len(ret.errors) : ret.errors[i].loc # "as_of_month"
           /\ ~VersionRejected(call.arg.schema_version)
                => /\ ret.kind = "instance"
                   /\ rec.optional.as_of_month =
                         IF "as_of_month" \in DOMAIN call.arg.kwargs
                         THEN call.arg.kwargs.as_of_month
                         ELSE <<"int", "0">>
    /\ (call.op = "TaxComputeRequest" /\ call.arg.as_of_month \in {Given(0), Given(13)})
        => ret.kind = "ValidationError" /\ rec = NoRecord

\* a response that carries month 13
C30_Witness ==
    /\ call.op = "TaxComputeResponse"
    /\ ret.kind = "instance"
    /\ rec.optional.as_of_month = <<"int", "13">>

\* The empty list and the empty dict.
EmptyContainers == {<<"list", "[]">>, <<"dict", "{}">>}

\* The containers of instance x that no argument was given for.
DefaultedContainers(x) == ContainerFields(x.type) \ x.model_fields_set

\* C28: the containers that defaults give are not shared.  While the
\* client adds to the defaulted containers of a later instance, those of
\* the instance it kept stay empty, and every instance starts with its
\* defaulted containers empty, whatever was added to others before.
C28_DefaultedContainersNotShared ==
    /\ other.type \in {"BankTransaction", "ConversationSession", "PlatformEvent"}
        => \A f \in DefaultedContainers(other) : other.optional[f] \in EmptyContainers
    /\ other.type = "JournalEntry" => other.lines = <<>>
    /\ (call.op \in {"BankTransaction", "ConversationSession", "PlatformEvent"}
            /\ ret.kind = "instance")
        => \A f \in DefaultedContainers(rec) : rec.optional[f] \in EmptyContainers
    /\ (call.op = "JournalEntry" /\ ret.kind = "instance") => rec.lines = <<>>

\* two BankTransactions made without metadata: a key was added to the
\* metadata of the second, the first has none
C28_Witness ==
    /\ other.type = "BankTransaction"
    /\ rec.type = "BankTransaction"
    /\ rec.optional.metadata = <<"dict", "{k: x}">>
    /\ other.optional.metadata = <<"dict", "{}">>

\* The two types of event.
Events == {"PlatformEvent", "AuditEvent"}

\* C29: an event constructed without a timestamp has the reading of the
\* clock at its construction as timestamp, and one constructed with a
\* timestamp has that one; of two events constructed without timestamp,
\* the later has a timestamp that is not earlier than that of the first.
C29_TimestampReadAtConstruction ==
    /\ (call.op \in Events /\ ret.kind = "instance")
        => /\ rec.stamps.timestamp \in Int
           /\ rec.stamps.timestamp =
                 IF "timestamp" \in DOMAIN call.arg.kwargs
                 THEN call.arg.kwargs.timestamp[2]
                 ELSE clock
    /\ (/\ other.type \in Events
        /\ rec.type \in Events
        /\ "timestamp" \notin other.model_fields_set
        /\ "timestamp" \notin rec.model_fields_set)
        => rec.stamps.timestamp >= other.stamps.timestamp

\* an event kept from clock reading 0 and an event made at reading 2
C29_Witness ==
    /\ other.type = "PlatformEvent"
    /\ call.op = "AuditEvent"
    /\ "timestamp" \notin other.model_fields_set
    /\ "timestamp" \notin rec.model_fields_set
    /\ other.stamps.timestamp = 0
    /\ rec.stamps.timestamp = 2

====
